---------------------------- MODULE Spec2Model ----------------------------
(***************************************************************************)
(* Model of the chess rules engine of rust-chess (src/src/chess.rs,        *)
(* src/src/move_calculator.rs, src/src/piece.rs).                          *)
(*                                                                         *)
(* A cell is a pair <<x, y>> with x the file index and y the row index of  *)
(* board[x][y]; y = 0 is Black's home row, y = 7 is White's home row.      *)
(* A Board<bool> of the source is modelled by the set of cells that hold   *)
(* true.  A Board<Option<Piece>> is a function from Cells to pieces, with  *)
(* NoPiece standing for Option::None.                                      *)
(***************************************************************************)
EXTENDS Integers, Sequences, FiniteSets, TLC

BOARD_WIDTH == 8
BOARD_HEIGHT == 8

Cells == (0 .. (BOARD_WIDTH - 1)) \X (0 .. (BOARD_HEIGHT - 1))

White == "White"
Black == "Black"

(* piece.rs: struct Piece { piece_type, color, has_moved }; the pawn's     *)
(* en_passant flag lives in the PieceType::Pawn variant and is FALSE in    *)
(* the model for every other kind.                                         *)
Piece(t, c, m, ep) ==
    [piece_type |-> t, color |-> c, has_moved |-> m, en_passant |-> ep]

NoPiece == Piece("None", "None", FALSE, FALSE)

Piece_new(t, c) == Piece(t, c, FALSE, FALSE)

get_enemy_color(c) == IF c = White THEN Black ELSE White

is_position_in_bound(x, y) ==
    x >= 0 /\ x < BOARD_WIDTH /\ y >= 0 /\ y < BOARD_HEIGHT

is_empty_on(board_state, cell) == board_state[cell] = NoPiece

is_color_on(board_state, cell, c) ==
    board_state[cell] # NoPiece /\ board_state[cell].color = c

to_index_1d_column_major(cell) == cell[1] * BOARD_HEIGHT + cell[2]
to_index_1d(cell) == cell[2] * BOARD_WIDTH + cell[1]

to_index_2d_transposed(ind) == <<ind \div BOARD_WIDTH, ind % BOARD_WIDTH>>
to_index_2d(ind) == <<ind % BOARD_WIDTH, ind \div BOARD_WIDTH>>

(* moves[cell] = value on a Board<bool> *)
SetCell(moves, cell, value) ==
    IF value THEN moves \cup {cell} ELSE moves \ {cell}

(* The cell that stands for a failed assert_eq! / index panic inside the   *)
(* move generator: a Board<bool> that contains it comes from a call that   *)
(* aborted.                                                                *)
PanicCell == <<-1, -1>>

-----------------------------------------------------------------------------
(* move_calculator.rs *)

get_moves_in_direction_unblocked(board_state, pos, dir, enemy_color, moves) ==
    moves \cup
    {ind \in Cells :
        /\ \E k \in 1 .. BOARD_WIDTH :
               ind = <<pos[1] + k * dir[1], pos[2] + k * dir[2]>>
        /\ \/ is_empty_on(board_state, ind)
           \/ is_color_on(board_state, ind, enemy_color)}
RECURSIVE get_moves_in_direction(_, _, _, _, _)
get_moves_in_direction(board_state, pos, dir, enemy_color, moves) ==
    LET nx == pos[1] + dir[1]
        ny == pos[2] + dir[2]
    IN  IF ~is_position_in_bound(nx, ny)
        THEN moves
        ELSE LET ind == <<nx, ny>>
                 is_empty == is_empty_on(board_state, ind)
                 is_enemy == is_color_on(board_state, ind, enemy_color)
                 marked == IF is_empty \/ is_enemy
                           THEN moves \cup {ind} ELSE moves
             IN  IF ~is_empty
                 THEN marked
                 ELSE get_moves_in_direction(board_state, ind, dir,
                                             enemy_color, marked)

OrthogonalDirs == <<<<1, 0>>, <<-1, 0>>, <<0, 1>>, <<0, -1>>>>
DiagonalDirs == <<<<-1, -1>>, <<-1, 1>>, <<1, -1>>, <<1, 1>>>>

RECURSIVE MovesInDirs(_, _, _, _, _, _)
MovesInDirs(board_state, pos, dirs, i, enemy_color, moves) ==
    IF i > Len(dirs)
    THEN moves
    ELSE MovesInDirs(board_state, pos, dirs, i + 1, enemy_color,
             get_moves_in_direction(board_state, pos, dirs[i],
                                    enemy_color, moves))

get_orthogonal_moves(board_state, pos, enemy_color, moves) ==
    MovesInDirs(board_state, pos, OrthogonalDirs, 1, enemy_color, moves)

get_diagonal_moves(board_state, pos, enemy_color, moves) ==
    MovesInDirs(board_state, pos, DiagonalDirs, 1, enemy_color, moves)

get_bishop_moves(piece, board_state, pos, moves) ==
    get_diagonal_moves(board_state, pos, get_enemy_color(piece.color), moves)

get_rook_moves(piece, board_state, pos, moves) ==
    get_orthogonal_moves(board_state, pos, get_enemy_color(piece.color), moves)

get_queen_moves(piece, board_state, pos, moves) ==
    get_orthogonal_moves(board_state, pos, get_enemy_color(piece.color),
        get_diagonal_moves(board_state, pos, get_enemy_color(piece.color),
                           moves))

KnightDirs == {<<-2, -1>>, <<-2, 1>>, <<2, -1>>, <<2, 1>>,
               <<-1, -2>>, <<-1, 2>>, <<1, -2>>, <<1, 2>>}

get_knight_moves_any_square(piece, board_state, pos, moves) ==
    moves \cup
    {ind \in {<<pos[1] + d[1], pos[2] + d[2]>> : d \in KnightDirs} :
        is_position_in_bound(ind[1], ind[2])}
get_knight_moves(piece, board_state, pos, moves) ==
    LET enemy_color == get_enemy_color(piece.color)
    IN  moves \cup
        {ind \in {<<pos[1] + d[1], pos[2] + d[2]>> : d \in KnightDirs} :
            /\ is_position_in_bound(ind[1], ind[2])
            /\ \/ is_empty_on(board_state, ind)
               \/ is_color_on(board_state, ind, enemy_color)}

(* the forward loop of get_pawn_moves: for move_y in 1..=reach *)
RECURSIVE PawnAdvance(_, _, _, _, _, _)
PawnAdvance(board_state, pos, y_direction, move_y, reach, moves) ==
    IF move_y > reach
    THEN moves
    ELSE LET nx == pos[1]
             ny == pos[2] + move_y * y_direction
         IN  IF ~is_position_in_bound(nx, ny)
             THEN moves
             ELSE IF is_empty_on(board_state, <<nx, ny>>)
                  THEN PawnAdvance(board_state, pos, y_direction, move_y + 1,
                                   reach, moves \cup {<<nx, ny>>})
                  ELSE moves

get_pawn_moves(piece, board_state, pos, moves) ==
    LET y_direction == IF piece.color = White THEN -1 ELSE 1
        reach == IF piece.has_moved THEN 1 ELSE 2
        advanced == PawnAdvance(board_state, pos, y_direction, 1, reach, moves)
        enemy_color == get_enemy_color(piece.color)
        attacks ==
            {ind \in {<<pos[1] + move_x, pos[2] + y_direction>> :
                          move_x \in {-1, 1}} :
                /\ is_position_in_bound(ind[1], ind[2])
                /\ LET is_directly_attackable ==
                           is_color_on(board_state, ind, enemy_color)
                       adjacent == board_state[<<ind[1], pos[2]>>]
                       can_en_passant ==
                           /\ adjacent.piece_type = "Pawn"
                           /\ adjacent.en_passant
                   IN  is_directly_attackable \/ can_en_passant}
    IN  advanced \cup attacks

CastleWalk_unblocked(board_state, nx0, y, x_dir) ==
    IF x_dir > 0 THEN BOARD_WIDTH - 1 ELSE 0
RECURSIVE CastleWalk(_, _, _, _)
CastleWalk(board_state, nx0, y, x_dir) ==
    LET nx == nx0 + x_dir
    IN  IF nx = 0 \/ nx = BOARD_WIDTH - 1
        THEN nx
        ELSE IF ~is_empty_on(board_state, <<nx, y>>)
             THEN -1
             ELSE CastleWalk(board_state, nx, y, x_dir)

can_castle_any_rook(board_state, pos, x_dir) ==
    LET nx == CastleWalk(board_state, pos[1], pos[2], x_dir)
    IN  /\ nx # -1
        /\ board_state[<<nx, pos[2]>>].piece_type = "Rook"

can_castle(board_state, pos, x_dir) ==
    LET nx == CastleWalk(board_state, pos[1], pos[2], x_dir)
    IN  /\ nx # -1
        /\ board_state[<<nx, pos[2]>>].piece_type = "Rook"
        /\ ~board_state[<<nx, pos[2]>>].has_moved

KingDirs == {<<move_x, move_y>> \in (-1 .. 1) \X (-1 .. 1) :
                 <<move_x, move_y>> # <<0, 0>>}

get_king_moves_any_square(piece, board_state, pos, moves) ==
    LET stepped ==
            moves \cup
            {ind \in {<<pos[1] + d[1], pos[2] + d[2]>> : d \in KingDirs} :
                is_position_in_bound(ind[1], ind[2])}
        rank == IF piece.color = White THEN BOARD_HEIGHT - 1 ELSE 0
    IN  IF piece.has_moved
        THEN stepped
        ELSE IF pos # <<4, rank>>
             THEN stepped \cup {PanicCell}
             ELSE SetCell(SetCell(stepped, <<pos[1] + 2, pos[2]>>,
                                  can_castle(board_state, pos, 1)),
                          <<pos[1] - 2, pos[2]>>,
                          can_castle(board_state, pos, -1))

get_king_moves(piece, board_state, pos, moves) ==
    LET enemy_color == get_enemy_color(piece.color)
        stepped ==
            moves \cup
            {ind \in {<<pos[1] + d[1], pos[2] + d[2]>> : d \in KingDirs} :
                /\ is_position_in_bound(ind[1], ind[2])
                /\ \/ is_empty_on(board_state, ind)
                   \/ is_color_on(board_state, ind, enemy_color)}
        rank == IF piece.color = White THEN BOARD_HEIGHT - 1 ELSE 0
    IN  IF piece.has_moved
        THEN stepped
        ELSE IF pos # <<4, rank>>
             THEN stepped \cup {PanicCell}
             ELSE SetCell(SetCell(stepped, <<pos[1] + 2, pos[2]>>,
                                  can_castle(board_state, pos, 1)),
                          <<pos[1] - 2, pos[2]>>,
                          can_castle(board_state, pos, -1))

get_moves(board_state, ind, moves) ==
    LET piece == board_state[ind]
    IN  CASE piece.piece_type = "Pawn" ->
                 get_pawn_moves(piece, board_state, ind, moves)
          [] piece.piece_type = "Knight" ->
                 get_knight_moves(piece, board_state, ind, moves)
          [] piece.piece_type = "Bishop" ->
                 get_bishop_moves(piece, board_state, ind, moves)
          [] piece.piece_type = "Rook" ->
                 get_rook_moves(piece, board_state, ind, moves)
          [] piece.piece_type = "Queen" ->
                 get_queen_moves(piece, board_state, ind, moves)
          [] piece.piece_type = "King" ->
                 get_king_moves(piece, board_state, ind, moves)
          [] OTHER -> moves

(* chess.rs calls the generator as get_pseudo_legal_moves *)
get_pseudo_legal_moves(board_state, ind, moves) ==
    get_moves(board_state, ind, moves)

(* for x in 0..BOARD_WIDTH { for y in 0..BOARD_HEIGHT { ... } }: the i-th   *)
(* cell visited is <<i \div 8, i % 8>>                                      *)
ScanCell(i) == <<i \div BOARD_HEIGHT, i % BOARD_HEIGHT>>
ScanLen == BOARD_WIDTH * BOARD_HEIGHT

(* the index of the first cell at or after i in scan order that satisfies  *)
(* want, or ScanLen: the cells in between only `continue`                  *)
NextScan(i, wanted) ==
    LET rest == {j \in i .. (ScanLen - 1) : ScanCell(j) \in wanted}
    IN  IF rest = {} THEN ScanLen
        ELSE CHOOSE j \in rest : \A k \in rest : j <= k

CellsOfColor_any(board_state, color) ==
    {c \in Cells : board_state[c] # NoPiece}
CellsOfColor(board_state, color) ==
    {c \in Cells : is_color_on(board_state, c, color)}

RECURSIVE AllAttacksFrom(_, _, _, _)
AllAttacksFrom(board_state, color, i, attacks) ==
    LET j == NextScan(i, CellsOfColor(board_state, color))
    IN  IF PanicCell \in attacks \/ j >= ScanLen
        THEN attacks
        ELSE AllAttacksFrom(board_state, color, j + 1,
                            get_moves(board_state, ScanCell(j), attacks))

get_all_attacks(board_state, color) ==
    AllAttacksFrom(board_state, color, 0, {})

-----------------------------------------------------------------------------
(* chess.rs: game logic of struct Chess *)

(* Option<T>: None is the empty sequence, Some(v) the one-element sequence *)
None == <<>>
Some(v) == <<v>>

(* `let v = ...;` followed by the statements In that read v: the value is   *)
(* computed once and handed to the rest of the function                    *)
With(v, In(_)) == In(v)

Normal == [kind |-> "Normal"]
Check == [kind |-> "Check"]
Checkmate == [kind |-> "Checkmate"]
Stalemate == [kind |-> "Stalemate"]
(* TurnState::Promotion(Promoter { cell, color, position }); position is    *)
(* the constant promoter_position and carries no game state                *)
Promotion(cell, color) == [kind |-> "Promotion", cell |-> cell, color |-> color]

PROMOTION_PIECES == <<"Queen", "Knight", "Rook", "Bishop">>

NoPanic == ""

(* Chess::move_castling on the board, given the (already marked) source    *)
(* piece; returns the board and the panic message of a failed expect       *)
move_castling_rook_lost(board_state, from, to, src_piece) ==
    LET is_castling ==
            /\ src_piece.piece_type = "King"
            /\ (from[1] - to[1] = 2 \/ to[1] - from[1] = 2)
        rook_x == IF to[1] > from[1] THEN BOARD_WIDTH - 1 ELSE 0
        rook == board_state[<<rook_x, from[2]>>]
    IN  IF ~is_castling
        THEN [board |-> board_state, panic |-> NoPanic]
        ELSE IF rook = NoPiece
             THEN [board |-> board_state, panic |-> "cell should not be empty"]
             ELSE [board |-> [board_state EXCEPT ![<<rook_x, from[2]>>] = NoPiece],
                   panic |-> NoPanic]

move_castling_rook_outside(board_state, from, to, src_piece) ==
    LET is_castling ==
            /\ src_piece.piece_type = "King"
            /\ (from[1] - to[1] = 2 \/ to[1] - from[1] = 2)
        rook_x == IF to[1] > from[1] THEN BOARD_WIDTH - 1 ELSE 0
        rook_new_x == IF to[1] > from[1] THEN to[1] + 1 ELSE to[1] - 1
        rook == board_state[<<rook_x, from[2]>>]
    IN  IF ~is_castling
        THEN [board |-> board_state, panic |-> NoPanic]
        ELSE IF rook = NoPiece
             THEN [board |-> board_state, panic |-> "cell should not be empty"]
             ELSE [board |->
                       [[board_state EXCEPT ![<<rook_x, from[2]>>] = NoPiece]
                           EXCEPT ![<<rook_new_x, from[2]>>] =
                                      [rook EXCEPT !.has_moved = TRUE]],
                   panic |-> NoPanic]

move_castling(board_state, from, to, src_piece) ==
    LET is_castling ==
            /\ src_piece.piece_type = "King"
            /\ (from[1] - to[1] = 2 \/ to[1] - from[1] = 2)
        rook_x == IF to[1] > from[1] THEN BOARD_WIDTH - 1 ELSE 0
        rook_new_x == IF to[1] > from[1] THEN to[1] - 1 ELSE to[1] + 1
        rook == board_state[<<rook_x, from[2]>>]
    IN  IF ~is_castling
        THEN [board |-> board_state, panic |-> NoPanic]
        ELSE IF rook = NoPiece
             THEN [board |-> board_state, panic |-> "cell should not be empty"]
             ELSE [board |->
                       [[board_state EXCEPT ![<<rook_x, from[2]>>] = NoPiece]
                           EXCEPT ![<<rook_new_x, from[2]>>] =
                                      [rook EXCEPT !.has_moved = TRUE]],
                   panic |-> NoPanic]

move_en_passant_any_advance(board_state, from, to, src_piece) ==
    IF src_piece.piece_type # "Pawn"
    THEN [src |-> src_piece, attacking_position |-> to]
    ELSE IF from[1] # to[1]
         THEN LET en_passant_target == board_state[<<to[1], from[2]>>]
              IN  IF /\ en_passant_target # NoPiece
                     /\ en_passant_target.color # src_piece.color
                     /\ en_passant_target.piece_type = "Pawn"
                     /\ en_passant_target.en_passant
                  THEN [src |-> src_piece,
                        attacking_position |-> <<to[1], from[2]>>]
                  ELSE [src |-> src_piece, attacking_position |-> to]
         ELSE [src |-> [src_piece EXCEPT !.en_passant = TRUE],
               attacking_position |-> to]

move_en_passant_no_capture(board_state, from, to, src_piece) ==
    IF /\ src_piece.piece_type = "Pawn"
       /\ from[1] = to[1]
       /\ (from[2] - to[2] = 2 \/ to[2] - from[2] = 2)
    THEN [src |-> [src_piece EXCEPT !.en_passant = TRUE],
          attacking_position |-> to]
    ELSE [src |-> src_piece, attacking_position |-> to]

(* Chess::move_en_passant: the source piece with its flag updated and the  *)
(* attacking position                                                      *)
move_en_passant(board_state, from, to, src_piece) ==
    IF src_piece.piece_type # "Pawn"
    THEN [src |-> src_piece, attacking_position |-> to]
    ELSE IF from[1] # to[1]
         THEN LET en_passant_target == board_state[<<to[1], from[2]>>]
              IN  IF /\ en_passant_target # NoPiece
                     /\ en_passant_target.color # src_piece.color
                     /\ en_passant_target.piece_type = "Pawn"
                     /\ en_passant_target.en_passant
                  THEN [src |-> src_piece,
                        attacking_position |-> <<to[1], from[2]>>]
                  ELSE [src |-> src_piece, attacking_position |-> to]
         ELSE IF from[2] - to[2] = 2 \/ to[2] - from[2] = 2
              THEN [src |-> [src_piece EXCEPT !.en_passant = TRUE],
                    attacking_position |-> to]
              ELSE [src |-> src_piece, attacking_position |-> to]

move_piece_flag_kept(board_state, from, to) ==
    IF board_state[from] = NoPiece
    THEN [board |-> board_state, panic |-> "should contain a piece"]
    ELSE With(move_en_passant(board_state, from, to, board_state[from]),
           LAMBDA ep :
         With(move_castling(board_state, from, to, ep.src),
           LAMBDA castled :
             IF castled.panic # NoPanic
             THEN castled
             ELSE [board |->
                       [[[castled.board EXCEPT ![from] = NoPiece]
                            EXCEPT ![ep.attacking_position] = NoPiece]
                            EXCEPT ![to] = ep.src],
                   panic |-> NoPanic]))

move_piece(board_state, from, to) ==
    IF board_state[from] = NoPiece
    THEN [board |-> board_state, panic |-> "should contain a piece"]
    ELSE With(move_en_passant(board_state, from, to,
                              [board_state[from] EXCEPT !.has_moved = TRUE]),
           LAMBDA ep :
         With(move_castling(board_state, from, to, ep.src),
           LAMBDA castled :
             IF castled.panic # NoPanic
             THEN castled
             ELSE [board |->
                       [[[castled.board EXCEPT ![from] = NoPiece]
                            EXCEPT ![ep.attacking_position] = NoPiece]
                            EXCEPT ![to] = ep.src],
                   panic |-> NoPanic]))

(* the king search of is_in_check: the inner loop breaks at the first king *)
(* of a column, the outer loop goes on, so the last column with a king     *)
(* decides                                                                 *)
find_king(board_state, color) ==
    LET kings == {c \in Cells : /\ board_state[c].color = color
                                /\ board_state[c].piece_type = "King"}
    IN  IF kings = {}
        THEN None
        ELSE Some(CHOOSE k \in kings :
                     \A o \in kings :
                         \/ o[1] < k[1]
                         \/ (o[1] = k[1] /\ o[2] >= k[2]))

is_in_check(board_state, color) ==
    With(find_king(board_state, color),
      LAMBDA kings_position :
        IF kings_position = None
        THEN [value |-> FALSE, panic |-> "king not found in the board"]
        ELSE With(get_all_attacks(board_state, get_enemy_color(color)),
               LAMBDA enemy_attacks :
                 IF PanicCell \in enemy_attacks
                 THEN [value |-> FALSE, panic |-> "king cannot exist at"]
                 ELSE [value |-> kings_position[1] \in enemy_attacks,
                       panic |-> NoPanic]))

(* One candidate of a filtering loop: simulate from -> to on the running   *)
(* board f.board, test the mover's king, restore the saved board.          *)
(* f = [board, moves, dirty, panic]; dirty counts the candidates that were *)
(* simulated on a board different from board_saved.                        *)
restore_board_kept(simulated, board_saved) == simulated
restore_board(simulated, board_saved) == board_saved

simulate_candidate(f, from, to, clear, color, board_saved) ==
    LET dirty == IF f.board = board_saved THEN f.dirty ELSE f.dirty + 1
    IN  With(move_piece(f.board, from, to),
          LAMBDA moved :
            IF moved.panic # NoPanic
            THEN [f EXCEPT !.panic = moved.panic, !.dirty = dirty]
            ELSE With(is_in_check(moved.board, color),
                   LAMBDA checked :
                     IF checked.panic # NoPanic
                     THEN [f EXCEPT !.panic = checked.panic, !.dirty = dirty,
                                    !.board = moved.board]
                     ELSE [board |-> restore_board(moved.board, board_saved),
                           moves |-> IF checked.value
                                     THEN f.moves \ {clear} ELSE f.moves,
                           dirty |-> dirty,
                           panic |-> NoPanic]))

(* `for x in 0..2` of eliminate_castling_illegal_moves, from x on: the     *)
(* king is replayed onto from + x_dir * x                                  *)
RECURSIVE CastlingReplayFrom(_, _, _, _, _, _)
CastlingReplayFrom(f, from, x_dir, x, color, board_saved) ==
    IF x >= 2 \/ f.panic # NoPanic
    THEN f
    ELSE CastlingReplayFrom(
             simulate_candidate(f, from, <<from[1] + x_dir * x, from[2]>>,
                                <<from[1] + x_dir * 2, from[2]>>, color,
                                board_saved),
             from, x_dir, x + 1, color, board_saved)

(* the body of `for x_dir in [-1, 1]` in eliminate_castling_illegal_moves: *)
(* the candidate is looked up once, then the king is replayed onto         *)
(* from + x_dir * x for x = 0 and x = 1                                    *)
castling_replay_transit_only(f, from, x_dir, color, board_saved) ==
    LET castling_dst == <<from[1] + x_dir * 2, from[2]>>
    IN  IF \/ f.panic # NoPanic
           \/ ~is_position_in_bound(castling_dst[1], castling_dst[2])
           \/ castling_dst \notin f.moves
        THEN f
        ELSE CastlingReplayFrom(f, from, x_dir, 1, color, board_saved)
castling_replay(f, from, x_dir, color, board_saved) ==
    LET castling_dst == <<from[1] + x_dir * 2, from[2]>>
    IN  IF \/ f.panic # NoPanic
           \/ ~is_position_in_bound(castling_dst[1], castling_dst[2])
           \/ castling_dst \notin f.moves
        THEN f
        ELSE CastlingReplayFrom(f, from, x_dir, 0, color, board_saved)

(* `for x_dir in [-1, 1]`, from the i-th direction on *)
CastlingDirs == <<-1, 1>>

RECURSIVE CastlingDirsFrom(_, _, _, _, _)
CastlingDirsFrom(f, from, i, color, board_saved) ==
    IF i > Len(CastlingDirs)
    THEN f
    ELSE CastlingDirsFrom(
             castling_replay(f, from, CastlingDirs[i], color, board_saved),
             from, i + 1, color, board_saved)

eliminate_castling_illegal_moves(f, from, color, board_saved) ==
    IF f.panic # NoPanic
    THEN f
    ELSE IF f.board[from] = NoPiece
         THEN [f EXCEPT !.panic = "unwrap on None"]
         ELSE IF f.board[from].piece_type # "King"
              THEN f
              ELSE CastlingDirsFrom(f, from, 1, color, board_saved)

RECURSIVE EliminateFrom(_, _, _, _, _, _)
EliminateFrom(f, from, i, candidates, color, board_saved) ==
    With(NextScan(i, candidates),
      LAMBDA j :
        IF j >= ScanLen \/ f.panic # NoPanic
        THEN f
        ELSE EliminateFrom(
                 simulate_candidate(f, from, ScanCell(j), ScanCell(j), color,
                                    board_saved),
                 from, j + 1, candidates, color, board_saved))

(* eliminate_illegal_moves(from) with self.legal_moves[from] = pseudo;     *)
(* returns [board, moves, dirty, panic]                                    *)
eliminate_illegal_moves(board_state, from, pseudo, color, dirty) ==
    LET board_saved == board_state
        f0 == [board |-> board_state, moves |-> pseudo, dirty |-> dirty,
               panic |-> NoPanic]
        f1 == EliminateFrom(f0, from, 0, pseudo, color, board_saved)
    IN  eliminate_castling_illegal_moves(f1, from, color, board_saved)

NoMoves == [c \in Cells |-> {}]

(* compute_each_legal_moves: g = [board, legal_moves, dirty, panic] *)
RECURSIVE ComputeFrom(_, _, _)
ComputeFrom(g, color, i) ==
    With(NextScan(i, CellsOfColor(g.board, color)),
      LAMBDA j :
        IF j >= ScanLen \/ g.panic # NoPanic
        THEN g
        ELSE With(get_pseudo_legal_moves(g.board, ScanCell(j), {}),
               LAMBDA pseudo :
                 IF PanicCell \in pseudo
                 THEN [g EXCEPT !.panic = "king cannot exist at"]
                 ELSE With(eliminate_illegal_moves(g.board, ScanCell(j),
                                                   pseudo, color, g.dirty),
                        LAMBDA f :
                          ComputeFrom(
                              [board |-> f.board,
                               legal_moves |->
                                   [g.legal_moves EXCEPT
                                       ![ScanCell(j)] = f.moves],
                               dirty |-> f.dirty,
                               panic |-> f.panic],
                              color, j + 1))))

compute_each_legal_moves(board_state, color) ==
    ComputeFrom([board |-> board_state, legal_moves |-> NoMoves,
                 dirty |-> 0, panic |-> NoPanic], color, 0)

compute_is_movable(moves_table) == {c \in Cells : moves_table[c] # {}}

-----------------------------------------------------------------------------
(* The state of struct Chess and the bookkeeping of the exploration.       *)
VARIABLES
    board,          \* Chess::board
    selected_cell,  \* Chess::selected_cell
    legal_moves,    \* Chess::legal_moves, cell -> set of destinations
    is_movable,     \* Chess::is_movable, the set of cells marked true
    turn_info,      \* Chess::turn_info = [state, color]
    change_turn,    \* Chess::change_turn (the pending turn change flag)
    panicked,       \* message of the panic that aborted the program, or ""
    sim_dirty,      \* candidates of the last filtering that were simulated
                    \* on a board other than board_saved
    last_move,      \* history: Some(<<from, to>>) of the last move that
                    \* update() executed, None before the first
    plies_left      \* moves the exploration may still accept

vars == <<board, selected_cell, legal_moves, is_movable, turn_info,
          change_turn, panicked, sim_dirty, last_move, plies_left>>

(* the fields of self as one record *)
Self == [board |-> board, selected_cell |-> selected_cell,
         legal_moves |-> legal_moves, is_movable |-> is_movable,
         turn_info |-> turn_info, change_turn |-> change_turn,
         panicked |-> panicked, sim_dirty |-> sim_dirty]

(* `!self.is_movable.iter().any(|row| row.contains(&true))` *)
no_movable_inverted(movable) == movable # {}
no_movable(movable) == movable = {}

(* compute_moves that keeps the table it finds *)
compute_moves_kept(self) ==
    [self EXCEPT !.turn_info.state =
                     IF no_movable(self.is_movable)
                     THEN IF self.turn_info.state = Check
                          THEN Checkmate ELSE Stalemate
                     ELSE self.turn_info.state]
compute_moves(self) ==
    With(compute_each_legal_moves(self.board, self.turn_info.color),
      LAMBDA g :
        IF g.panic # NoPanic
        THEN [self EXCEPT !.panicked = g.panic, !.sim_dirty = g.dirty]
        ELSE With(compute_is_movable(g.legal_moves),
               LAMBDA movable :
                 [self EXCEPT
                     !.board = g.board,
                     !.legal_moves = g.legal_moves,
                     !.is_movable = movable,
                     !.sim_dirty = g.dirty,
                     !.turn_info.state =
                         IF no_movable(movable)
                         THEN IF self.turn_info.state = Check
                              THEN Checkmate ELSE Stalemate
                         ELSE self.turn_info.state]))

Chess_change_turn(self) ==
    LET color == get_enemy_color(self.turn_info.color)
        flipped == [self EXCEPT !.change_turn = FALSE,
                                !.turn_info.color = color,
                                !.selected_cell = None]
    IN  With(is_in_check(self.board, color),
          LAMBDA checked :
            IF checked.panic # NoPanic
            THEN [flipped EXCEPT !.panicked = checked.panic]
            ELSE compute_moves(
                     [flipped EXCEPT !.turn_info.state =
                                         IF checked.value
                                         THEN Check ELSE Normal]))

promotionable_row_swapped(color) == IF color = White THEN BOARD_HEIGHT - 1 ELSE 0
promotionable_row(color) == IF color = White THEN 0 ELSE BOARD_HEIGHT - 1

(* the last cell in scan order wins the Promotion state *)
ScanIndex(cell) == cell[1] * BOARD_HEIGHT + cell[2]

LastInScan(cells) ==
    CHOOSE c \in cells : \A o \in cells : ScanIndex(o) <= ScanIndex(c)

(* the en-passant sweep of post_move_update: every pawn of the side that   *)
(* did not move loses its flag                                             *)
sweep_en_passant_skipped(board_state, enemy) == board_state
sweep_en_passant(board_state, enemy) ==
    [c \in Cells |->
        IF /\ board_state[c].piece_type = "Pawn"
           /\ board_state[c].color = enemy
        THEN [board_state[c] EXCEPT !.en_passant = FALSE]
        ELSE board_state[c]]

(* the cells post_move_update finds a pawn on its promotionable row *)
promoting_cells(board_state) ==
    {c \in Cells : /\ board_state[c].piece_type = "Pawn"
                   /\ c[2] = promotionable_row(board_state[c].color)}

post_move_update_enemy_colour(self) ==
    LET swept == sweep_en_passant(self.board,
                                  get_enemy_color(self.turn_info.color))
        promoting == promoting_cells(swept)
    IN  IF promoting = {}
        THEN [self EXCEPT !.board = swept, !.change_turn = TRUE]
        ELSE LET cell == LastInScan(promoting)
             IN  [self EXCEPT !.board = swept,
                              !.turn_info.state =
                                  Promotion(cell, get_enemy_color(
                                                      swept[cell].color))]

post_move_update_no_delay(self) ==
    LET swept == sweep_en_passant(self.board,
                                  get_enemy_color(self.turn_info.color))
        promoting == promoting_cells(swept)
    IN  IF promoting = {}
        THEN [self EXCEPT !.board = swept, !.change_turn = TRUE]
        ELSE LET cell == LastInScan(promoting)
             IN  [self EXCEPT !.board = swept,
                              !.change_turn = TRUE,
                              !.turn_info.state =
                                  Promotion(cell, swept[cell].color)]

post_move_update(self) ==
    LET swept == sweep_en_passant(self.board,
                                  get_enemy_color(self.turn_info.color))
        promoting == promoting_cells(swept)
    IN  IF promoting = {}
        THEN [self EXCEPT !.board = swept, !.change_turn = TRUE]
        ELSE LET cell == LastInScan(promoting)
             IN  [self EXCEPT !.board = swept,
                              !.turn_info.state =
                                  Promotion(cell, swept[cell].color)]

promote_fresh(piece, promote_to) ==
    IF piece.piece_type # "Pawn"
    THEN [piece |-> piece, panic |-> "cannot promote"]
    ELSE IF promote_to = "King"
         THEN [piece |-> piece, panic |-> "cannot promote to King"]
         ELSE [piece |-> Piece(promote_to, piece.color, FALSE, FALSE),
               panic |-> NoPanic]

(* Piece::promote *)
promote_unchecked(piece, promote_to) ==
    IF piece.piece_type # "Pawn"
    THEN [piece |-> piece, panic |-> "cannot promote"]
    ELSE [piece |-> [piece EXCEPT !.piece_type = promote_to,
                                  !.en_passant = FALSE],
          panic |-> NoPanic]
promote(piece, promote_to) ==
    IF piece.piece_type # "Pawn"
    THEN [piece |-> piece, panic |-> "cannot promote"]
    ELSE IF promote_to = "King"
         THEN [piece |-> piece, panic |-> "cannot promote to King"]
         ELSE [piece |-> [piece EXCEPT !.piece_type = promote_to,
                                       !.en_passant = FALSE],
               panic |-> NoPanic]

(* geometry of the window: the cell size, the window of main.rs, the       *)
(* position the board is drawn at and the position of the promoter strip   *)
CELL_SIZE == 80
WINDOW_WIDTH == 800
WINDOW_HEIGHT == 800
position == <<80, 80>>
promoter_position ==
    <<(WINDOW_WIDTH \div 2) - 2 * CELL_SIZE, WINDOW_HEIGHT - CELL_SIZE>>

(* ((m_pos - origin) / CELL_SIZE).floor() as a pair of integers *)
cell_of_truncated(m_pos, origin) ==
    LET trunc(d) == IF d < 0 THEN -((-d) \div CELL_SIZE) ELSE d \div CELL_SIZE
    IN  <<trunc(m_pos[1] - origin[1]), trunc(m_pos[2] - origin[2])>>
cell_of(m_pos, origin) ==
    <<(m_pos[1] - origin[1]) \div CELL_SIZE,
      (m_pos[2] - origin[2]) \div CELL_SIZE>>

(* A Mouse as update() reads it: whether the left button was pressed this  *)
(* frame and the position of the pointer.                                  *)
Mouse(pressed, m_pos) == [pressed |-> pressed, position |-> m_pos]

(* the centre of a board cell, the centre of the x-th promoter button *)
CellCentre(cell) ==
    <<position[1] + cell[1] * CELL_SIZE + (CELL_SIZE \div 2),
      position[2] + cell[2] * CELL_SIZE + (CELL_SIZE \div 2)>>
ButtonCentre(x) ==
    <<promoter_position[1] + x * CELL_SIZE + (CELL_SIZE \div 2),
      promoter_position[2] + (CELL_SIZE \div 2)>>

(* pointer positions: every cell, every promoter button, and positions     *)
(* just off the board and just off the promoter strip                      *)
MousePositions ==
    {CellCentre(c) : c \in Cells}
        \cup {ButtonCentre(x) : x \in 0 .. 3}
        \cup {<<position[1] - 1, position[2] + 1>>,
              <<position[1] + 1, position[2] + BOARD_HEIGHT * CELL_SIZE>>,
              <<promoter_position[1] - 1, promoter_position[2] + 1>>,
              <<promoter_position[1] + 4 * CELL_SIZE,
                promoter_position[2] + 1>>}

NoPress == Mouse(FALSE, CellCentre(<<4, 4>>))
Click(cell) == Mouse(TRUE, CellCentre(cell))

MouseInputs ==
    {NoPress} \cup {Mouse(TRUE, m_pos) : m_pos \in MousePositions}

try_select_cell(m) ==
    LET cell == cell_of(m.position, position)
    IN  IF is_position_in_bound(cell[1], cell[2]) THEN Some(cell) ELSE None

choose_promotion_any_row(m) ==
    LET cell == cell_of(m.position, promoter_position)
        is_in_bound == cell[1] >= 0 /\ cell[1] < 4
    IN  IF ~m.pressed
        THEN None
        ELSE IF ~is_in_bound
             THEN None
             ELSE Some(PROMOTION_PIECES[cell[1] + 1])
choose_promotion(m) ==
    LET cell == cell_of(m.position, promoter_position)
        is_in_bound == cell[1] >= 0 /\ cell[1] < 4 /\ cell[2] = 0
    IN  IF ~m.pressed
        THEN None
        ELSE IF ~is_in_bound
             THEN None
             ELSE Some(PROMOTION_PIECES[cell[1] + 1])

(* the Promotion branch of update() *)
update_promotion_no_turn(self, m) ==
    LET cell == self.turn_info.state.cell
        chosen == choose_promotion(m)
        promoted == promote(self.board[cell], chosen[1])
    IN  IF chosen = None
        THEN self
        ELSE IF self.board[cell] = NoPiece
             THEN [self EXCEPT !.panicked =
                                   "the given cell should contain a pawn"]
             ELSE IF promoted.panic # NoPanic
                  THEN [self EXCEPT !.panicked = promoted.panic]
                  ELSE [self EXCEPT !.board[cell] = promoted.piece]
update_promotion(self, m) ==
    LET cell == self.turn_info.state.cell
        chosen == choose_promotion(m)
        promoted == promote(self.board[cell], chosen[1])
    IN  IF chosen = None
        THEN self
        ELSE IF self.board[cell] = NoPiece
             THEN [self EXCEPT !.panicked =
                                   "the given cell should contain a pawn"]
             ELSE IF promoted.panic # NoPanic
                  THEN [self EXCEPT !.panicked = promoted.panic]
                  ELSE [self EXCEPT !.board[cell] = promoted.piece,
                                    !.change_turn = TRUE]

(* the click branch of update() *)
update_click_any_selected(self, m) ==
    LET cell == try_select_cell(m)
    IN  IF ~m.pressed
        THEN self
        ELSE IF cell = None
             THEN [self EXCEPT !.selected_cell = None]
             ELSE IF self.selected_cell # None
                  THEN With(move_piece(self.board, self.selected_cell[1],
                                       cell[1]),
                         LAMBDA moved :
                           IF moved.panic # NoPanic
                           THEN [self EXCEPT !.panicked = moved.panic]
                           ELSE post_move_update(
                                    [self EXCEPT !.board = moved.board]))
                  ELSE [self EXCEPT !.selected_cell = cell]

update_click(self, m) ==
    LET cell == try_select_cell(m)
        is_movable_cell ==
            /\ self.selected_cell # None
            /\ cell[1] \in self.legal_moves[self.selected_cell[1]]
    IN  IF ~m.pressed
        THEN self
        ELSE IF cell = None
             THEN [self EXCEPT !.selected_cell = None]
             ELSE IF is_movable_cell
                  THEN With(move_piece(self.board, self.selected_cell[1],
                                       cell[1]),
                         LAMBDA moved :
                           IF moved.panic # NoPanic
                           THEN [self EXCEPT !.panicked = moved.panic]
                           ELSE post_move_update(
                                    [self EXCEPT !.board = moved.board]))
                  ELSE [self EXCEPT !.selected_cell = cell]

(* update() after the pending turn change has been applied *)
update_after_turn(self, m) ==
    IF self.panicked # NoPanic
    THEN self
    ELSE IF self.turn_info.state.kind = "Promotion"
         THEN update_promotion(self, m)
         ELSE update_click(self, m)

(* Chess::update *)
update(self, m) ==
    update_after_turn(IF self.change_turn THEN Chess_change_turn(self)
                      ELSE self, m)

(* the click of m is accepted as a move by update_click on self *)
AcceptsMove(self, m) ==
    /\ self.panicked = NoPanic
    /\ self.turn_info.state.kind # "Promotion"
    /\ m.pressed
    /\ try_select_cell(m) # None
    /\ self.selected_cell # None
    /\ try_select_cell(m)[1] \in self.legal_moves[self.selected_cell[1]]

-----------------------------------------------------------------------------
(* Chess::new(position).init() *)

setup ==
    <<"r", "n", "b", "q", "k", "b", "n", "r",
      "p", "p", "p", "p", "p", "p", "p", "p",
      "-", "-", "-", "-", "-", "-", "-", "-",
      "-", "-", "-", "-", "-", "-", "-", "-",
      "-", "-", "-", "-", "-", "-", "-", "-",
      "-", "-", "-", "-", "-", "-", "-", "-",
      "P", "P", "P", "P", "P", "P", "P", "P",
      "R", "N", "B", "Q", "K", "B", "N", "R">>

setup_piece(curr) ==
    LET piece_type ==
            CASE curr \in {"r", "R"} -> "Rook"
              [] curr \in {"n", "N"} -> "Knight"
              [] curr \in {"b", "B"} -> "Bishop"
              [] curr \in {"q", "Q"} -> "Queen"
              [] curr \in {"k", "K"} -> "King"
              [] curr \in {"p", "P"} -> "Pawn"
        color == IF curr \in {"r", "n", "b", "q", "k", "p"}
                 THEN Black ELSE White
    IN  IF curr = "-" THEN NoPiece ELSE Piece_new(piece_type, color)

init_board ==
    [c \in Cells |->
        setup_piece(setup[(CHOOSE ind \in 0 .. (Len(setup) - 1) :
                               to_index_2d(ind) = c) + 1])]

Chess_new ==
    [board |-> [c \in Cells |-> NoPiece],
     selected_cell |-> None,
     legal_moves |-> NoMoves,
     is_movable |-> {},
     turn_info |-> [state |-> Normal, color |-> White],
     change_turn |-> FALSE,
     panicked |-> NoPanic,
     sim_dirty |-> 0]

Chess_init == compute_moves([Chess_new EXCEPT !.board = init_board])

-----------------------------------------------------------------------------
(* Bounds of the exploration: the number of moves accepted after each      *)
(* start position.                                                         *)
StdPly == 1
WipePly == 2
CastlePly == 2
EpPly == 3
PromoPly == 2
MatePly == 2
PairPly == 1
ReturnPly == 1
ExposePly == 1
RookPly == 1

Place(placements) ==
    [c \in Cells |->
        IF \E p \in placements : p[1] = c
        THEN (CHOOSE p \in placements : p[1] = c)[2]
        ELSE NoPiece]

(* A mid-game position at the start of a turn: the state update() leaves   *)
(* when it applies the turn change that follows a move of `mover` and no   *)
(* button was pressed.                                                     *)
MidGame(placements, mover) ==
    Chess_change_turn([Chess_new EXCEPT !.board = Place(placements),
                                        !.turn_info.color = mover,
                                        !.change_turn = TRUE])

(* a piece that has left its initial square / that still stands on it *)
Moved(t, c) == Piece(t, c, TRUE, FALSE)
Unmoved(t, c) == Piece_new(t, c)

(* Mid-game positions of sparse endgames.  Each is a legal chess position  *)
(* in which the side that moved last does not stand in check, every piece  *)
(* with has_moved = FALSE stands on its initial square and no pawn stands  *)
(* on its eighth row, so a game of update() calls from the standard        *)
(* position leads to it (the missing pieces were captured on the way).     *)

(* White king b7 checked by a rook on the b-file, a second rook on the     *)
(* c-file, the black king still unmoved on e8; White to move               *)
WipePosition ==
    {<<<<1, 1>>, Moved("King", White)>>,
     <<<<4, 0>>, Unmoved("King", Black)>>,
     <<<<1, 6>>, Moved("Rook", Black)>>,
     <<<<2, 5>>, Moved("Rook", Black)>>}

(* White king and king's rook unmoved with the h-pawn still at home, a     *)
(* black rook on f7 bearing on f1; White to move                           *)
CastlePosition ==
    {<<<<4, 7>>, Unmoved("King", White)>>,
     <<<<7, 7>>, Unmoved("Rook", White)>>,
     <<<<7, 6>>, Unmoved("Pawn", White)>>,
     <<<<5, 1>>, Moved("Rook", Black)>>,
     <<<<0, 0>>, Moved("King", Black)>>}

(* a white pawn on its fifth row next to the file of an unmoved black      *)
(* pawn; Black to move                                                     *)
EpPosition ==
    {<<<<0, 7>>, Moved("King", White)>>,
     <<<<4, 3>>, Moved("Pawn", White)>>,
     <<<<3, 1>>, Unmoved("Pawn", Black)>>,
     <<<<7, 0>>, Moved("King", Black)>>}

(* a pawn of each side one step from its last row; White to move *)
PromoPosition ==
    {<<<<0, 7>>, Moved("King", White)>>,
     <<<<0, 1>>, Moved("Pawn", White)>>,
     <<<<7, 6>>, Moved("Pawn", Black)>>,
     <<<<7, 0>>, Moved("King", Black)>>}

(* king and queen against a cornered king; White to move *)
MatePosition ==
    {<<<<2, 1>>, Moved("King", White)>>,
     <<<<3, 2>>, Moved("Queen", White)>>,
     <<<<0, 0>>, Moved("King", Black)>>}

(* two black pawns on neighbouring files, one on its fifth row and one    *)
(* still at home, the black king on d4; Black to move                      *)
PairPosition ==
    {<<<<0, 7>>, Moved("King", White)>>,
     <<<<2, 3>>, Moved("Pawn", Black)>>,
     <<<<3, 1>>, Unmoved("Pawn", Black)>>,
     <<<<3, 4>>, Moved("King", Black)>>}

(* the white king unmoved with its queen's rook and c-pawn at home and its *)
(* king's rook back on h1 after moving, the black king back on e8 after    *)
(* moving beside its unmoved king's rook, a black knight on a3; White to   *)
(* move                                                                    *)
ReturnPosition ==
    {<<<<4, 7>>, Unmoved("King", White)>>,
     <<<<0, 7>>, Unmoved("Rook", White)>>,
     <<<<7, 7>>, Moved("Rook", White)>>,
     <<<<2, 6>>, Unmoved("Pawn", White)>>,
     <<<<0, 5>>, Moved("Knight", Black)>>,
     <<<<7, 0>>, Unmoved("Rook", Black)>>,
     <<<<4, 0>>, Moved("King", Black)>>}

(* the white king on g8 beside the unmoved black king on e8, a white pawn  *)
(* on d5 closing the diagonal of a black bishop on b3, the black c-pawn    *)
(* still at home; Black to move                                            *)
ExposePosition ==
    {<<<<6, 0>>, Moved("King", White)>>,
     <<<<3, 3>>, Moved("Pawn", White)>>,
     <<<<4, 0>>, Unmoved("King", Black)>>,
     <<<<1, 5>>, Moved("Bishop", Black)>>,
     <<<<2, 1>>, Unmoved("Pawn", Black)>>}

(* a white pawn one step from the corner a8, the black king unmoved on e8  *)
(* with the squares between it and the corner empty; White to move         *)
RookPosition ==
    {<<<<7, 7>>, Moved("King", White)>>,
     <<<<0, 1>>, Moved("Pawn", White)>>,
     <<<<4, 0>>, Unmoved("King", Black)>>,
     <<<<6, 2>>, Moved("Knight", Black)>>}

(* the mid-game positions, the side that moved last, the moves explored *)
MidGames ==
    {[placements |-> WipePosition, mover |-> Black, plies |-> WipePly],
     [placements |-> CastlePosition, mover |-> Black, plies |-> CastlePly],
     [placements |-> EpPosition, mover |-> White, plies |-> EpPly],
     [placements |-> PromoPosition, mover |-> Black, plies |-> PromoPly],
     [placements |-> MatePosition, mover |-> Black, plies |-> MatePly],
     [placements |-> PairPosition, mover |-> White, plies |-> PairPly],
     [placements |-> ReturnPosition, mover |-> Black, plies |-> ReturnPly],
     [placements |-> ExposePosition, mover |-> White, plies |-> ExposePly],
     [placements |-> RookPosition, mover |-> Black, plies |-> RookPly]}

StartPositions ==
    {[self |-> Chess_init, plies |-> StdPly]}
        \cup {[self |-> MidGame(s.placements, s.mover), plies |-> s.plies] :
                  s \in MidGames}

Init ==
    \E start \in StartPositions :
        /\ board = start.self.board
        /\ selected_cell = start.self.selected_cell
        /\ legal_moves = start.self.legal_moves
        /\ is_movable = start.self.is_movable
        /\ turn_info = start.self.turn_info
        /\ change_turn = start.self.change_turn
        /\ panicked = start.self.panicked
        /\ sim_dirty = start.self.sim_dirty
        /\ last_move = None
        /\ plies_left = start.plies

(* The clicks the exploration follows from self: every click while a       *)
(* promotion is pending, every click off the board, every click on a cell  *)
(* that is_movable marks or that is a legal destination of the selected    *)
(* cell, and the clicks on the probe cells.  A click on any other cell     *)
(* only stores that cell in selected_cell, and legal_moves of such a cell  *)
(* is empty.                                                               *)
ProbeCells == {<<7, 0>>, <<4, 4>>}

Followed(self, m) ==
    \/ ~m.pressed
    \/ self.turn_info.state.kind = "Promotion"
    \/ try_select_cell(m) = None
    \/ \E c \in self.is_movable \cup ProbeCells : try_select_cell(m) = Some(c)
    \/ AcceptsMove(self, m)

(* one call of Chess::update(mouse) *)
Update ==
    /\ panicked = NoPanic
    /\ \E turned \in {IF change_turn THEN Chess_change_turn(Self) ELSE Self} :
           \E m \in MouseInputs :
             \E after \in {update_after_turn(turned, m)} :
               LET accepted == AcceptsMove(turned, m)
               IN  /\ Followed(turned, m)
                   /\ accepted => plies_left > 0
                   /\ board' = after.board
                   /\ selected_cell' = after.selected_cell
                   /\ legal_moves' = after.legal_moves
                   /\ is_movable' = after.is_movable
                   /\ turn_info' = after.turn_info
                   /\ change_turn' = after.change_turn
                   /\ panicked' = after.panicked
                   /\ sim_dirty' = after.sim_dirty
                   /\ last_move' = IF accepted
                                   THEN Some(<<turned.selected_cell[1],
                                               try_select_cell(m)[1]>>)
                                   ELSE last_move
                   /\ plies_left' = IF accepted THEN plies_left - 1
                                    ELSE plies_left

Next == Update

Spec == Init /\ [][Next]_vars

-----------------------------------------------------------------------------
(* Reference notions the properties are stated with: attack under the      *)
(* standard chess capture rules, independent of the move generator.        *)

Abs(n) == IF n < 0 THEN -n ELSE n
Sign(n) == IF n < 0 THEN -1 ELSE IF n > 0 THEN 1 ELSE 0
Max(a, b) == IF a >= b THEN a ELSE b

ClearPath(board_state, from, target) ==
    LET dx == target[1] - from[1]
        dy == target[2] - from[2]
    IN  \A k \in 1 .. (Max(Abs(dx), Abs(dy)) - 1) :
            board_state[<<from[1] + k * Sign(dx), from[2] + k * Sign(dy)>>]
                = NoPiece

StdAttacks(board_state, from, target) ==
    LET piece == board_state[from]
        dx == target[1] - from[1]
        dy == target[2] - from[2]
        diagonal == Abs(dx) = Abs(dy) /\ dx # 0
        straight == (dx = 0) # (dy = 0)
    IN  CASE piece.piece_type = "Pawn" ->
                 /\ Abs(dx) = 1
                 /\ dy = (IF piece.color = White THEN -1 ELSE 1)
          [] piece.piece_type = "Knight" ->
                 {Abs(dx), Abs(dy)} = {1, 2}
          [] piece.piece_type = "King" ->
                 Max(Abs(dx), Abs(dy)) = 1
          [] piece.piece_type = "Bishop" ->
                 diagonal /\ ClearPath(board_state, from, target)
          [] piece.piece_type = "Rook" ->
                 straight /\ ClearPath(board_state, from, target)
          [] piece.piece_type = "Queen" ->
                 (diagonal \/ straight) /\ ClearPath(board_state, from, target)
          [] OTHER -> FALSE

StdAttacked(board_state, by_color, target) ==
    \E from \in Cells :
        /\ board_state[from].color = by_color
        /\ StdAttacks(board_state, from, target)

KingCells(board_state, color) ==
    {c \in Cells : /\ board_state[c].piece_type = "King"
                   /\ board_state[c].color = color}

KingAttacked(board_state, color) ==
    \E k \in KingCells(board_state, color) :
        StdAttacked(board_state, get_enemy_color(color), k)

(* the legal-move table in force: computed for the side to move on the     *)
(* current board (no move executed since, no promotion pending)            *)
TableInForce ==
    /\ panicked = NoPanic
    /\ ~change_turn
    /\ turn_info.state.kind # "Promotion"

(* the moves of the table *)
TableMoves ==
    UNION {{<<from, to>> : to \in legal_moves[from]} : from \in Cells}

-----------------------------------------------------------------------------
(* C1: in every reachable position, executing any move of the legal-move   *)
(* table with move_piece yields a board on which the mover's own king is   *)
(* not attacked by any enemy piece under the standard capture rules.       *)
C1_LegalMovesKeepKingSafe ==
    TableInForce =>
        \A mv \in TableMoves :
            ~KingAttacked(move_piece(board, mv[1], mv[2]).board,
                          turn_info.color)

(* C2: after every compute_moves the state is Checkmate iff the side to    *)
(* move is in check and has no legal destination, and Stalemate iff it is  *)
(* not in check and has no legal destination.                              *)
C2_TerminalIffNoMoves ==
    TableInForce =>
        LET in_check == KingAttacked(board, turn_info.color)
            no_moves == \A c \in CellsOfColor(board, turn_info.color) :
                            legal_moves[c] = {}
        IN  /\ turn_info.state = Checkmate <=> (in_check /\ no_moves)
            /\ turn_info.state = Stalemate <=> (~in_check /\ no_moves)

(* C6: in every reachable state the board holds exactly one king of each   *)
(* colour, and is_in_check never fails with 'king not found in the board'. *)
C6_OneKingEach ==
    /\ Cardinality(KingCells(board, White)) = 1
    /\ Cardinality(KingCells(board, Black)) = 1
    /\ panicked # "king not found in the board"

(* C8: a turn change leaves the selection None, and whenever the state is  *)
(* Normal or Check the side to move has a legal move, with Check iff its   *)
(* king is attacked and Normal iff it is not.                              *)
C8_TurnChangeResult ==
    /\ (panicked = NoPanic /\ change_turn) =>
           \A turned \in {Chess_change_turn(Self)} :
               turned.panicked = NoPanic => turned.selected_cell = None
    /\ (TableInForce /\ turn_info.state \in {Normal, Check}) =>
           /\ TableMoves # {}
           /\ turn_info.state = Check <=> KingAttacked(board, turn_info.color)
           /\ turn_info.state = Normal <=> ~KingAttacked(board, turn_info.color)

(* the two-file king moves of the table *)
CastlingMoves ==
    {mv \in TableMoves : /\ board[mv[1]].piece_type = "King"
                         /\ Abs(mv[2][1] - mv[1][1]) = 2
                         /\ mv[2][2] = mv[1][2]}

(* C3: the legal-move table contains a two-file king move only if the king *)
(* and the corner rook on that side are both unmoved, every square         *)
(* strictly between them is empty, and the king is not attacked on its     *)
(* start square, on the square it passes over, or on its destination.      *)
C3_CastlingOnlyWhenAllowed ==
    TableInForce =>
        \A mv \in CastlingMoves :
            LET from == mv[1]
                king == board[from]
                x_dir == Sign(mv[2][1] - from[1])
                corner == <<IF x_dir > 0 THEN BOARD_WIDTH - 1 ELSE 0, from[2]>>
                rook == board[corner]
            IN  /\ ~king.has_moved
                /\ rook.piece_type = "Rook"
                /\ rook.color = king.color
                /\ ~rook.has_moved
                /\ \A x \in 1 .. 6 :
                       (x - from[1]) * (x - corner[1]) < 0
                           => board[<<x, from[2]>>] = NoPiece
                /\ \A k \in 0 .. 2 :
                       ~StdAttacked(board, get_enemy_color(king.color),
                                    <<from[1] + k * x_dir, from[2]>>)

(* C3 happens: after a move of the opponent the table offers a castling *)
C3_Witness ==
    /\ TableInForce
    /\ last_move # None
    /\ CastlingMoves # {}

-----------------------------------------------------------------------------
(* the en-passant captures of the table: a pawn stepping diagonally onto   *)
(* an empty square                                                         *)
EnPassantMoves ==
    {mv \in TableMoves : /\ board[mv[1]].piece_type = "Pawn"
                         /\ mv[2][1] # mv[1][1]
                         /\ board[mv[2]] = NoPiece}

(* mv is a two-square advance along one file *)
TwoSquareAdvance(mv) ==
    /\ mv[1][1] = mv[2][1]
    /\ Abs(mv[1][2] - mv[2][2]) = 2

(* C4: a pawn's en_passant flag becomes true only when that pawn advances  *)
(* two squares; an en-passant capture of a pawn is in the table only on    *)
(* the ply that immediately follows that pawn's two-square advance; and    *)
(* once a move has been executed no pawn but the one that just moved has   *)
(* the flag.                                                               *)
C4_EnPassantWindow ==
    [][/\ \A c \in Cells :
              (board'[c].en_passant /\ ~board[c].en_passant) =>
                  /\ plies_left' = plies_left - 1
                  /\ board'[c].piece_type = "Pawn"
                  /\ last_move'[1][2] = c
                  /\ TwoSquareAdvance(last_move'[1])
                  /\ board[last_move'[1][1]].piece_type = "Pawn"
       /\ TableInForce =>
              \A mv \in EnPassantMoves :
                  LET victim == <<mv[2][1], mv[1][2]>>
                  IN  /\ last_move # None
                      /\ last_move[1][2] = victim
                      /\ TwoSquareAdvance(last_move[1])
                      /\ board[victim].piece_type = "Pawn"
                      /\ board[victim].color = get_enemy_color(turn_info.color)
                      /\ board[victim].en_passant
       /\ (plies_left' < plies_left /\ panicked' = NoPanic) =>
              \A c \in Cells :
                  board'[c].en_passant => c = last_move'[1][2]
      ]_vars

(* C4 happens: a two-square advance was answered by a move that was not    *)
(* the en-passant capture, and the pawn that advanced stands unflagged     *)
C4_Witness ==
    /\ TableInForce
    /\ last_move # None
    /\ \E c \in Cells :
           /\ board[c].piece_type = "Pawn"
           /\ board[c].color = Black
           /\ c[2] = 3
           /\ board[c].has_moved
           /\ ~board[c].en_passant
           /\ board[<<c[1], 1>>] = NoPiece
           /\ \E n \in {c[1] - 1, c[1] + 1} :
                  /\ n \in 0 .. 7
                  /\ board[<<n, 3>>].piece_type = "Pawn"
                  /\ board[<<n, 3>>].color = White
    /\ turn_info.color = Black
    /\ EnPassantMoves = {}

-----------------------------------------------------------------------------
(* the row a pawn of the colour promotes on *)
LastRow(color) == IF color = White THEN 0 ELSE 7

(* C5: whenever an executed move puts a pawn on its last row the state     *)
(* becomes Promotion before any turn change, and while the state is        *)
(* Promotion an update() call either leaves the board, the selection and   *)
(* the turn untouched, or turns the pending pawn into one of the four      *)
(* promotion pieces; the turn colour does not flip in either case.         *)
C5_PromotionSuspends ==
    [][/\ (plies_left' < plies_left /\ panicked' = NoPanic) =>
              LET to == last_move'[1][2]
              IN  (/\ board'[to].piece_type = "Pawn"
                   /\ to[2] = LastRow(board'[to].color))
                      => /\ turn_info'.state.kind = "Promotion"
                         /\ ~change_turn'
                         /\ turn_info'.color = board'[to].color
       /\ (/\ panicked = NoPanic
           /\ turn_info.state.kind = "Promotion"
           /\ ~change_turn) =>
              \/ /\ board' = board
                 /\ selected_cell' = selected_cell
                 /\ turn_info' = turn_info
                 /\ ~change_turn'
                 /\ panicked' = NoPanic
              \/ /\ \A c \in Cells \ {turn_info.state.cell} :
                        board'[c] = board[c]
                 /\ board'[turn_info.state.cell].piece_type
                        \in {"Queen", "Knight", "Rook", "Bishop"}
                 /\ board'[turn_info.state.cell].color
                        = board[turn_info.state.cell].color
                 /\ selected_cell' = selected_cell
                 /\ turn_info' = turn_info
                 /\ panicked' = NoPanic
      ]_vars

(* C5 happens: a black pawn has just reached row 7 and the choice is open *)
C5_Witness ==
    /\ panicked = NoPanic
    /\ turn_info.state.kind = "Promotion"
    /\ turn_info.color = Black
    /\ ~change_turn
    /\ board[turn_info.state.cell].piece_type = "Pawn"
    /\ turn_info.state.cell[2] = 7

-----------------------------------------------------------------------------
(* C7: every candidate of compute_each_legal_moves, the castling replays   *)
(* included, is simulated on a board equal to the board saved before       *)
(* filtering, and the filtering of a turn change leaves the board          *)
(* identical in every square and flag.                                     *)
C7_SimulationRestores ==
    /\ sim_dirty = 0
    /\ (panicked = NoPanic /\ change_turn) =>
           \A turned \in {Chess_change_turn(Self)} :
               turned.panicked = NoPanic =>
                   /\ turned.board = board
                   /\ turned.sim_dirty = 0

(* C7 happens: after a move, a table was filtered for a side whose unmoved *)
(* king had a castling candidate to replay                                 *)
C7_Witness ==
    /\ TableInForce
    /\ last_move # None
    /\ sim_dirty = 0
    /\ \E k \in KingCells(board, turn_info.color) :
           /\ ~board[k].has_moved
           /\ \E d \in {-2, 2} :
                  <<k[1] + d, k[2]>> \in get_pseudo_legal_moves(board, k, {})

-----------------------------------------------------------------------------
(* C9: once the state is Checkmate or Stalemate no update() call, whatever *)
(* the click, changes the board, the turn colour or the turn state.        *)
C9_TerminalAbsorbing ==
    [][turn_info.state \in {Checkmate, Stalemate} =>
           /\ board' = board
           /\ turn_info' = turn_info
           /\ ~change_turn'
           /\ panicked' = NoPanic
      ]_vars

(* C9 happens: a cell was clicked after the game had ended in checkmate *)
C9_Witness ==
    /\ turn_info.state = Checkmate
    /\ selected_cell # None
    /\ KingAttacked(board, turn_info.color)

-----------------------------------------------------------------------------
(* the board cell whose square on the screen contains the point *)
PixelIn(m_pos, cell) ==
    /\ position[1] + cell[1] * CELL_SIZE <= m_pos[1]
    /\ m_pos[1] < position[1] + (cell[1] + 1) * CELL_SIZE
    /\ position[2] + cell[2] * CELL_SIZE <= m_pos[2]
    /\ m_pos[2] < position[2] + (cell[2] + 1) * CELL_SIZE

(* the cells whose frame on the screen holds each pointer position *)
CellsAt == [m_pos \in MousePositions |-> {c \in Cells : PixelIn(m_pos, c)}]

(* C10: a click that is not a legal destination of the selected cell       *)
(* leaves the board, the turn colour, the turn state and the legal-move    *)
(* table unchanged; the selection becomes None when the click is off the   *)
(* board and the clicked cell otherwise.                                   *)
C10_RejectedClickFrame ==
    TableInForce =>
        \A m \in MouseInputs :
            \A hit \in {CellsAt[m.position]} :
                LET legal_dst ==
                        /\ selected_cell # None
                        /\ \E c \in hit : c \in legal_moves[selected_cell[1]]
                IN  (m.pressed /\ ~legal_dst) =>
                        \A after \in {update_after_turn(Self, m)} :
                            /\ after.board = board
                            /\ after.turn_info = turn_info
                            /\ after.legal_moves = legal_moves
                            /\ after.change_turn = change_turn
                            /\ after.panicked = NoPanic
                            /\ after.selected_cell =
                                   IF hit = {} THEN None
                                   ELSE Some(CHOOSE c \in hit : TRUE)

(* C10 happens: after a move, a click on a piece of the side not to move   *)
(* was taken as a selection and nothing else                               *)
C10_Witness ==
    /\ TableInForce
    /\ last_move # None
    /\ selected_cell # None
    /\ board[selected_cell[1]].color = get_enemy_color(turn_info.color)
    /\ board[last_move[1][2]] # NoPiece

-----------------------------------------------------------------------------
(* a promotion is pending: the choice is what the next update() reads *)
PromotionPending ==
    /\ panicked = NoPanic
    /\ turn_info.state.kind = "Promotion"
    /\ ~change_turn

(* the point lies on the x-th button of the promoter strip on the screen *)
ButtonIn(m_pos, x) ==
    /\ promoter_position[1] + x * CELL_SIZE <= m_pos[1]
    /\ m_pos[1] < promoter_position[1] + (x + 1) * CELL_SIZE
    /\ promoter_position[2] <= m_pos[2]
    /\ m_pos[2] < promoter_position[2] + CELL_SIZE

(* the input presses one of the four buttons *)
SelectsButton(m) == m.pressed /\ \E x \in 0 .. 3 : ButtonIn(m.position, x)

-----------------------------------------------------------------------------
(* the kind the x-th button of the strip stands for, left to right *)
ButtonKind(x) ==
    CASE x = 0 -> "Queen" [] x = 1 -> "Knight"
      [] x = 2 -> "Rook" [] x = 3 -> "Bishop"

(* C12: while a promotion is pending, a press on the button of kind K      *)
(* turns the piece on the pending square into a K of the same colour,      *)
(* changes no other square, and leaves a turn change pending whose result  *)
(* is the one an ordinary move to the same board would give: the opponent  *)
(* to move, the state one of Normal, Check, Checkmate, Stalemate, the      *)
(* table computed on the board with the promoted piece.                    *)
C12_ValidChoicePromotes ==
    PromotionPending =>
        \A m \in {n \in MouseInputs : SelectsButton(n)} :
            \A x \in {y \in 0 .. 3 : ButtonIn(m.position, y)} :
                \A after \in {update(Self, m)} :
                    /\ after.panicked = NoPanic
                    /\ after.board =
                           [board EXCEPT ![turn_info.state.cell].piece_type =
                                             ButtonKind(x)]
                    /\ after.board[turn_info.state.cell].color
                           = turn_info.state.color
                    /\ after.change_turn
                    /\ \A turned \in {Chess_change_turn(after)} :
                           /\ turned = Chess_change_turn(
                                  [Self EXCEPT !.board = after.board,
                                               !.turn_info.state = Normal,
                                               !.change_turn = TRUE])
                           /\ turned.panicked = NoPanic
                           /\ turned.turn_info.color
                                  = get_enemy_color(turn_info.color)
                           /\ turned.turn_info.state
                                  \in {Normal, Check, Checkmate, Stalemate}
                           /\ turned.board = after.board
                           /\ turned.legal_moves =
                                  compute_each_legal_moves(
                                      after.board,
                                      get_enemy_color(turn_info.color)
                                  ).legal_moves

(* C12 happens: the turn has passed to Black after White's pawn became a   *)
(* piece on row 0                                                          *)
C12_Witness ==
    /\ TableInForce
    /\ turn_info.color = Black
    /\ last_move # None
    /\ last_move[1][2][2] = 0
    /\ board[last_move[1][2]].color = White
    /\ board[last_move[1][2]].piece_type \in {"Queen", "Knight", "Rook", "Bishop"}
    /\ board[last_move[1][2]].has_moved
    /\ last_move[1][1][2] = 1
    /\ last_move[1][1][1] = last_move[1][2][1]

-----------------------------------------------------------------------------
PieceKinds == {"Pawn", "Rook", "Bishop", "Knight", "King", "Queen"}

(* C13: promote fails and leaves the piece as it was exactly when the      *)
(* piece is not a pawn or the target is King; and in every run of update() *)
(* none of the promotion failures has happened, the pending square holds a *)
(* pawn and no input chooses King.                                         *)
C13_PromoteFailsOnlyOffPawnOrKing ==
    /\ \A c \in {d \in Cells : board[d] # NoPiece} :
           \A promote_to \in PieceKinds :
               \A r \in {promote(board[c], promote_to)} :
                   IF board[c].piece_type # "Pawn" \/ promote_to = "King"
                   THEN r.panic # NoPanic /\ r.piece = board[c]
                   ELSE /\ r.panic = NoPanic
                        /\ r.piece.piece_type = promote_to
                        /\ r.piece.color = board[c].color
    /\ panicked \notin {"cannot promote", "cannot promote to King",
                        "the given cell should contain a pawn"}
    /\ PromotionPending =>
           /\ board[turn_info.state.cell].piece_type = "Pawn"
           /\ \A m \in MouseInputs : choose_promotion(m) # Some("King")

(* C13 happens: promote has just been applied to the pending pawn and the  *)
(* turn change it asks for has not yet run                                 *)
C13_Witness ==
    /\ panicked = NoPanic
    /\ change_turn
    /\ turn_info.state.kind = "Promotion"
    /\ board[turn_info.state.cell].piece_type
           \in {"Queen", "Knight", "Rook", "Bishop"}
    /\ board[turn_info.state.cell].color = turn_info.state.color

-----------------------------------------------------------------------------
(* The standard initial position, written down file by file: the kinds of  *)
(* the back rows from file 0 to file 7, Black on rows 0 and 1, White on    *)
(* rows 6 and 7.                                                           *)
BackRow ==
    <<"Rook", "Knight", "Bishop", "Queen", "King", "Bishop", "Knight", "Rook">>

StandardPosition ==
    [c \in Cells |->
        CASE c[2] = 0 -> Piece(BackRow[c[1] + 1], Black, FALSE, FALSE)
          [] c[2] = 1 -> Piece("Pawn", Black, FALSE, FALSE)
          [] c[2] = 6 -> Piece("Pawn", White, FALSE, FALSE)
          [] c[2] = 7 -> Piece(BackRow[c[1] + 1], White, FALSE, FALSE)
          [] OTHER -> NoPiece]

(* the 20 opening moves: each White pawn one or two rows up, each White    *)
(* knight to the two squares of row 5 it reaches                           *)
OpeningMoves ==
    [c \in Cells |->
        IF c[2] = 6
        THEN {<<c[1], 5>>, <<c[1], 4>>}
        ELSE IF c \in {<<1, 7>>, <<6, 7>>}
             THEN {<<c[1] - 1, 5>>, <<c[1] + 1, 5>>}
             ELSE {}]

(* C14: Chess::new().init() yields the standard initial position with 32   *)
(* pieces and every flag false, White to move, state Normal, no selection, *)
(* and a legal-move table of exactly the 20 opening moves; a game that     *)
(* starts on that board starts in exactly this state.                      *)
C14_InitialPosition ==
    /\ \A g \in {Chess_init} :
           /\ g.panicked = NoPanic
           /\ g.board = StandardPosition
           /\ Cardinality({c \in Cells : g.board[c] # NoPiece}) = 32
           /\ g.board[<<4, 0>>] = Piece("King", Black, FALSE, FALSE)
           /\ g.board[<<4, 7>>] = Piece("King", White, FALSE, FALSE)
           /\ g.turn_info = [state |-> Normal, color |-> White]
           /\ g.selected_cell = None
           /\ ~g.change_turn
           /\ g.legal_moves = OpeningMoves
           /\ Cardinality(UNION {{<<from, to>> : to \in g.legal_moves[from]} :
                                     from \in Cells}) = 20
    /\ (last_move = None /\ board = StandardPosition) =>
           /\ turn_info = [state |-> Normal, color |-> White]
           /\ legal_moves = OpeningMoves
           /\ ~change_turn
           /\ panicked = NoPanic

(* C14 happens: the game stands at its first frame on the standard board   *)
C14_Witness ==
    /\ last_move = None
    /\ selected_cell = None
    /\ board = StandardPosition
    /\ Cardinality(TableMoves) = 20

-----------------------------------------------------------------------------
(* C15: whenever a click is evaluated against the legal-move table (state  *)
(* Normal or Check, no turn change pending), legal_moves[s] is empty for   *)
(* every square s that is empty or holds a piece of the side not to move.  *)
C15_NoMovesOffTurn ==
    (TableInForce /\ turn_info.state \in {Normal, Check}) =>
        \A s \in Cells :
            (board[s] = NoPiece \/ board[s].color # turn_info.color) =>
                /\ legal_moves[s] = {}
                /\ s \notin is_movable

(* C15 happens: after a move the player has selected an empty square and   *)
(* the side not to move has pieces that could move on their own turn       *)
C15_Witness ==
    /\ TableInForce
    /\ turn_info.state \in {Normal, Check}
    /\ last_move # None
    /\ selected_cell # None
    /\ board[selected_cell[1]] = NoPiece
    /\ \E s \in Cells :
           /\ board[s].color = get_enemy_color(turn_info.color)
           /\ get_pseudo_legal_moves(board, s, {}) # {}

-----------------------------------------------------------------------------
(* the table of the state is the one computed from its board for its      *)
(* colour to move                                                          *)
TableIsFresh(table, board_state, color) ==
    \A g \in {compute_each_legal_moves(board_state, color)} :
        g.panic = NoPanic /\ table = g.legal_moves

(* C16: the table changes only in an update() that applies a pending turn  *)
(* change, and such an update() flips the colour to move and leaves the    *)
(* board as it was; while no turn change is applied and no move is         *)
(* accepted the board and the turn stay as they are; an update() that      *)
(* finds a turn change or a promotion pending accepts no move; a move is   *)
(* accepted only from the table in force; and the table of every turn,     *)
(* examined at the first selection click of the turn, equals the table     *)
(* computed from the current board for the colour to move.                 *)
C16_TableFreshPerTurn ==
    [][/\ legal_moves' # legal_moves => (change_turn /\ ~change_turn')
       /\ (change_turn \/ turn_info.state.kind = "Promotion") =>
              (plies_left' = plies_left /\ last_move' = last_move)
       /\ (change_turn /\ panicked' = NoPanic) =>
              /\ ~change_turn'
              /\ turn_info'.color = get_enemy_color(turn_info.color)
              /\ board' = board
       /\ (TableInForce /\ plies_left' = plies_left) =>
              (board' = board /\ turn_info' = turn_info /\ ~change_turn')
       /\ plies_left' < plies_left =>
              /\ TableInForce
              /\ last_move'[1][2] \in legal_moves[last_move'[1][1]]
       /\ (/\ TableInForce
           /\ selected_cell = None
           /\ selected_cell' = Some(<<7, 0>>)) =>
              TableIsFresh(legal_moves, board, turn_info.color)
      ]_vars

(* C16 happens: a second table is in force, computed at the turn change    *)
(* that followed a move, and it differs from the opening table             *)
C16_Witness ==
    /\ TableInForce
    /\ last_move # None
    /\ turn_info.color = Black
    /\ board[last_move[1][1]] = NoPiece
    /\ legal_moves # OpeningMoves
    /\ Cardinality(TableMoves) = 20

-----------------------------------------------------------------------------
(* the destinations get_moves produces for the piece on one cell alone *)
MovesAlone(board_state, ind) == get_moves(board_state, ind, {})

(* the union of the destination sets of every piece of the colour *)
UnionOfMoves(board_state, color) ==
    UNION {MovesAlone(board_state, ind) :
               ind \in CellsOfColor(board_state, color)}

(* C17: on every board the game reaches and for both colours,              *)
(* get_all_attacks equals the union over the pieces of that colour of the  *)
(* destinations get_moves produces for each piece alone.                   *)
C17_AttacksAreUnion ==
    \A color \in {White, Black} :
        get_all_attacks(board, color) = UnionOfMoves(board, color)

-----------------------------------------------------------------------------
(* The reference check test: an enemy pawn attacks its two forward         *)
(* diagonal squares, the other pieces attack along their capture rules,    *)
(* nothing attacks the square a pawn advances to, castling attacks         *)
(* nothing.                                                                *)
ReferenceCheck(board_state, color) == KingAttacked(board_state, color)

(* C18: on every board the game reaches and for each colour whose king is  *)
(* on the board, is_in_check answers without failing and equals the        *)
(* reference check test.                                                   *)
C18_CheckMatchesReference ==
    \A color \in {White, Black} :
        KingCells(board, color) # {} =>
            \A checked \in {is_in_check(board, color)} :
                /\ checked.panic = NoPanic
                /\ checked.value = ReferenceCheck(board, color)

-----------------------------------------------------------------------------
(* the unmoved kings of a board *)
UnmovedKings(board_state) ==
    {k \in Cells : /\ board_state[k].piece_type = "King"
                   /\ ~board_state[k].has_moved}

(* the castling candidates get_king_moves produces for the king on k: the  *)
(* destinations two files away on the king's row                           *)
CastlingCandidates(board_state, k) ==
    {to \in get_king_moves(board_state[k], board_state, k, {}) :
         to[2] = k[2] /\ Abs(to[1] - k[1]) = 2}

(* C19: on every board the game reaches, get_king_moves produces a         *)
(* castling candidate for an unmoved king only if the corner square on     *)
(* that side holds a rook of the king's colour with has_moved = false and  *)
(* every square strictly between the king and that corner is empty.        *)
C19_CastlingCandidateNeedsRook ==
    \A k \in UnmovedKings(board) :
        \A to \in CastlingCandidates(board, k) :
            LET corner == <<IF to[1] > k[1] THEN BOARD_WIDTH - 1 ELSE 0, k[2]>>
            IN  /\ board[corner].piece_type = "Rook"
                /\ board[corner].color = board[k].color
                /\ ~board[corner].has_moved
                /\ \A x \in 0 .. (BOARD_WIDTH - 1) :
                       (x - k[1]) * (x - corner[1]) < 0
                           => board[<<x, k[2]>>] = NoPiece

(* C19 happens: after a move, an unmoved king has a castling candidate on  *)
(* one side and none on the other                                          *)
C19_Witness ==
    /\ last_move # None
    /\ \E k \in UnmovedKings(board) :
           /\ Cardinality(CastlingCandidates(board, k)) = 1
           /\ board[<<7, k[2]>>].piece_type = "Rook"
           /\ board[<<0, k[2]>>] = NoPiece

-----------------------------------------------------------------------------
(* the diagonal destinations get_pawn_moves produces for the pawn on c *)
PawnDiagonals(board_state, c) ==
    {to \in get_pawn_moves(board_state[c], board_state, c, {}) :
         to[1] # c[1]}

(* C20: on every board the game reaches and for the pawns of both colours  *)
(* (get_all_attacks runs get_pawn_moves for the side not to move), a       *)
(* diagonal destination that is not the square of an enemy piece is        *)
(* produced only if it is empty and the square beside the pawn in the      *)
(* destination file holds an enemy pawn whose en_passant flag is true.     *)
C20_EnPassantNeedsEnemyPawn ==
    \A c \in {d \in Cells : board[d].piece_type = "Pawn"} :
        \A to \in PawnDiagonals(board, c) :
            \/ is_color_on(board, to, get_enemy_color(board[c].color))
            \/ /\ board[to] = NoPiece
               /\ board[<<to[1], c[2]>>].piece_type = "Pawn"
               /\ board[<<to[1], c[2]>>].color = get_enemy_color(board[c].color)
               /\ board[<<to[1], c[2]>>].en_passant

-----------------------------------------------------------------------------
(* the direction a pawn of the colour advances in: toward y = 0 for White, *)
(* toward y = 7 for Black                                                  *)
Forward(color) == IF color = White THEN -1 ELSE 1

(* the squares a pawn on c may advance to: one step forward if empty, two  *)
(* steps forward if the pawn has not moved and both squares are empty      *)
ForwardSquares(board_state, c) ==
    LET dy == Forward(board_state[c].color)
        one == <<c[1], c[2] + dy>>
        two == <<c[1], c[2] + 2 * dy>>
    IN  {t \in Cells :
            \/ t = one /\ board_state[one] = NoPiece
            \/ /\ t = two
               /\ ~board_state[c].has_moved
               /\ board_state[one] = NoPiece
               /\ board_state[two] = NoPiece}

(* an en-passant capture from c to the square to: the destination is empty *)
(* and the square beside c in the destination file holds an enemy pawn     *)
(* that has just advanced two squares                                      *)
IsEnPassant(board_state, c, to) ==
    /\ board_state[to] = NoPiece
    /\ board_state[<<to[1], c[2]>>].piece_type = "Pawn"
    /\ board_state[<<to[1], c[2]>>].color =
           get_enemy_color(board_state[c].color)
    /\ board_state[<<to[1], c[2]>>].en_passant

(* C21: on every board the game reaches and for the pawns of both colours, *)
(* the destinations of get_pawn_moves in the pawn's own file are exactly   *)
(* the square one step forward if it is empty and the square two steps     *)
(* forward if the pawn has not moved and both are empty, and every other   *)
(* destination is one step forward on an adjacent file and is either       *)
(* enemy-occupied or an en-passant capture.                                *)
C21_PawnAdvances ==
    \A c \in {d \in Cells : board[d].piece_type = "Pawn"} :
        \A dests \in {get_pawn_moves(board[c], board, c, {})} :
            /\ dests \subseteq Cells
            /\ {to \in dests : to[1] = c[1]} = ForwardSquares(board, c)
            /\ \A to \in {d \in dests : d[1] # c[1]} :
                   /\ Abs(to[1] - c[1]) = 1
                   /\ to[2] = c[2] + Forward(board[c].color)
                   /\ \/ is_color_on(board, to,
                                     get_enemy_color(board[c].color))
                      \/ IsEnPassant(board, c, to)

-----------------------------------------------------------------------------
(* the eight ray directions and the ones each sliding piece uses *)
AllRays == {d \in (-1 .. 1) \X (-1 .. 1) : d # <<0, 0>>}
RaysOf(kind) ==
    CASE kind = "Bishop" -> {d \in AllRays : d[1] # 0 /\ d[2] # 0}
      [] kind = "Rook" -> {d \in AllRays : d[1] = 0 \/ d[2] = 0}
      [] kind = "Queen" -> AllRays
      [] OTHER -> {}

(* the squares of the ray from c in direction d, nearest first *)
OnRay(c, d, k) == <<c[1] + k * d[1], c[2] + k * d[2]>>

(* the squares a sliding piece on c reaches along the ray d: the empty     *)
(* squares before the first occupied square, and that first occupied       *)
(* square when it holds an enemy piece                                     *)
RaySquares(board_state, c, d) ==
    {OnRay(c, d, k) :
        k \in {j \in 1 .. (BOARD_WIDTH - 1) :
                  /\ OnRay(c, d, j) \in Cells
                  /\ \A i \in 1 .. (j - 1) :
                         board_state[OnRay(c, d, i)] = NoPiece
                  /\ \/ board_state[OnRay(c, d, j)] = NoPiece
                     \/ board_state[OnRay(c, d, j)].color =
                            get_enemy_color(board_state[c].color)}}

(* the bishops, rooks and queens of a board *)
Sliders(board_state) ==
    {c \in Cells :
         board_state[c].piece_type \in {"Bishop", "Rook", "Queen"}}

(* C22: on every board the game reaches and for every bishop, rook and     *)
(* queen of both colours, the destinations get_moves produces lie on the   *)
(* eight rays from the piece, and on each ray they are exactly the empty   *)
(* squares before the first occupied square plus that square iff it holds  *)
(* an enemy piece when the ray is in the piece's direction set (diagonals  *)
(* for a bishop, orthogonals for a rook, all eight for a queen), and none  *)
(* otherwise.                                                              *)
C22_SlidingRays ==
    \A c \in Sliders(board) :
        \A dests \in {MovesAlone(board, c)} :
            /\ \A t \in dests :
                   \E d \in AllRays : \E k \in 1 .. (BOARD_WIDTH - 1) :
                       t = OnRay(c, d, k)
            /\ \A d \in AllRays :
                   {t \in dests : \E k \in 1 .. (BOARD_WIDTH - 1) :
                                      t = OnRay(c, d, k)}
                       = IF d \in RaysOf(board[c].piece_type)
                         THEN RaySquares(board, c, d)
                         ELSE {}

(* C22 happens: after a move, a sliding piece has a ray that ends on an    *)
(* enemy piece it may capture and another ray that a piece of its own      *)
(* colour cuts short                                                       *)
C22_Witness ==
    /\ last_move # None
    /\ \E c \in Sliders(board) :
           /\ \E t \in MovesAlone(board, c) :
                  board[t].color = get_enemy_color(board[c].color)
           /\ \E d \in RaysOf(board[c].piece_type) :
                  \E k \in 2 .. (BOARD_WIDTH - 1) :
                      /\ OnRay(c, d, k) \in Cells
                      /\ board[OnRay(c, d, k)].color = board[c].color
                      /\ OnRay(c, d, k - 1) \in MovesAlone(board, c)

-----------------------------------------------------------------------------
(* a square a piece of the colour may step onto: empty or enemy-occupied *)
Enterable(board_state, color, t) ==
    \/ board_state[t] = NoPiece
    \/ board_state[t].color = get_enemy_color(color)

(* the squares a knight on c jumps to, and the squares a king on c steps   *)
(* to                                                                      *)
KnightSquares(board_state, c) ==
    {t \in Cells : /\ {Abs(t[1] - c[1]), Abs(t[2] - c[2])} = {1, 2}
                   /\ Enterable(board_state, board_state[c].color, t)}
KingSquares(board_state, c) ==
    {t \in Cells : /\ Max(Abs(t[1] - c[1]), Abs(t[2] - c[2])) = 1
                   /\ Enterable(board_state, board_state[c].color, t)}

(* the destinations of a king on c two files away on its own row: the      *)
(* castling destinations                                                   *)
TwoFilesAway(c, t) == t[2] = c[2] /\ Abs(t[1] - c[1]) = 2

(* C23: on every board the game reaches and for both colours, the          *)
(* destinations get_moves produces for a knight are exactly the in-bounds  *)
(* squares at the eight knight offsets that are empty or enemy-occupied,   *)
(* and the destinations it produces for a king, castling destinations      *)
(* aside, are exactly the in-bounds adjacent squares that are empty or     *)
(* enemy-occupied.                                                         *)
C23_KnightAndKingSteps ==
    \A c \in Cells :
        /\ board[c].piece_type = "Knight" =>
               MovesAlone(board, c) = KnightSquares(board, c)
        /\ board[c].piece_type = "King" =>
               {t \in MovesAlone(board, c) : ~TwoFilesAway(c, t)}
                   = KingSquares(board, c)

(* C23 happens: after a move, a knight has a destination on an enemy       *)
(* piece, a destination on an empty square and an offset that leaves the   *)
(* board, and a king has an adjacent square it may enter and another that  *)
(* a piece of its own colour holds                                         *)
C23_Witness ==
    /\ last_move # None
    /\ \E c \in Cells :
           /\ board[c].piece_type = "Knight"
           /\ \E t \in MovesAlone(board, c) : board[t] # NoPiece
           /\ \E t \in MovesAlone(board, c) : board[t] = NoPiece
           /\ \E d \in KnightDirs : <<c[1] + d[1], c[2] + d[2]>> \notin Cells
    /\ \E k \in Cells :
           /\ board[k].piece_type = "King"
           /\ MovesAlone(board, k) # {}
           /\ \E t \in Cells :
                  /\ Max(Abs(t[1] - k[1]), Abs(t[2] - k[2])) = 1
                  /\ board[t].color = board[k].color

-----------------------------------------------------------------------------
(* the squares on which two boards differ *)
Changed(before, after) == {c \in Cells : before[c] # after[c]}

(* C24: for every move of the legal-move table in force that is not a      *)
(* castling move, move_piece succeeds, empties the from square and puts    *)
(* the moving piece on the to square; for an en-passant capture it also    *)
(* empties the square of the enemy pawn, (tx, fy), and changes no other    *)
(* square; for any other move it changes no square but from and to.        *)
C24_MoveFrame ==
    TableInForce =>
        \A mv \in TableMoves \ CastlingMoves :
            \A moved \in {move_piece(board, mv[1], mv[2])} :
                /\ moved.panic = NoPanic
                /\ moved.board[mv[1]] = NoPiece
                /\ moved.board[mv[2]].piece_type = board[mv[1]].piece_type
                /\ moved.board[mv[2]].color = board[mv[1]].color
                /\ IF mv \in EnPassantMoves
                   THEN /\ board[<<mv[2][1], mv[1][2]>>].piece_type = "Pawn"
                        /\ board[<<mv[2][1], mv[1][2]>>].color
                               = get_enemy_color(board[mv[1]].color)
                        /\ Changed(board, moved.board)
                               = {mv[1], mv[2], <<mv[2][1], mv[1][2]>>}
                   ELSE Changed(board, moved.board) = {mv[1], mv[2]}

(* C24 happens: after a move, the table holds an en-passant capture and a  *)
(* move of another kind to an empty square                                 *)
C24_Witness ==
    /\ TableInForce
    /\ last_move # None
    /\ EnPassantMoves # {}
    /\ \E mv \in TableMoves \ EnPassantMoves : board[mv[2]] = NoPiece

-----------------------------------------------------------------------------
(* the shape of a row after castling from the king's start square to the   *)
(* square to: the king two files from its start on x = 6 or x = 2, the     *)
(* rook of that side on the square the king passed over, both with         *)
(* has_moved = true, the king's start square and the corner empty          *)
Castled(after, color, to) ==
    LET kingside == to[1] = 6
        corner == <<IF kingside THEN 7 ELSE 0, to[2]>>
        passed == <<IF kingside THEN 5 ELSE 3, to[2]>>
    IN  /\ to[1] \in {2, 6}
        /\ after[to] = Piece("King", color, TRUE, FALSE)
        /\ after[passed] = Piece("Rook", color, TRUE, FALSE)
        /\ after[<<4, to[2]>>] = NoPiece
        /\ after[corner] = NoPiece

(* C25: for every castling move of the legal-move table in force,          *)
(* move_piece succeeds, starts from a king on x = 4 with a rook on the     *)
(* corner of that side, leaves the row castled and changes exactly the     *)
(* king's start and destination squares, the corner and the square the     *)
(* king passed over; and right after update() has executed a two-file king *)
(* move the board shows the castled row.                                   *)
C25_CastlingFrame ==
    /\ TableInForce =>
           \A mv \in CastlingMoves :
               \A moved \in {move_piece(board, mv[1], mv[2])} :
                   /\ moved.panic = NoPanic
                   /\ mv[1][1] = 4
                   /\ board[<<IF mv[2][1] > 4 THEN 7 ELSE 0, mv[1][2]>>]
                          .piece_type = "Rook"
                   /\ Castled(moved.board, board[mv[1]].color, mv[2])
                   /\ Changed(board, moved.board)
                          = {mv[1], mv[2],
                             <<IF mv[2][1] > 4 THEN 7 ELSE 0, mv[1][2]>>,
                             <<IF mv[2][1] > 4 THEN 5 ELSE 3, mv[1][2]>>}
    /\ (/\ panicked = NoPanic
        /\ change_turn
        /\ last_move # None
        /\ board[last_move[1][2]].piece_type = "King"
        /\ Abs(last_move[1][2][1] - last_move[1][1][1]) = 2)
           => Castled(board, turn_info.color, last_move[1][2])

(* C25 happens: update() has just executed a castling move *)
C25_Witness ==
    /\ panicked = NoPanic
    /\ change_turn
    /\ last_move # None
    /\ board[last_move[1][2]].piece_type = "King"
    /\ Abs(last_move[1][2][1] - last_move[1][1][1]) = 2
    /\ board[<<3, 7>>].piece_type = "Rook"

-----------------------------------------------------------------------------
(* the corner a castling move from the king's square k to the square to    *)
(* takes its rook from                                                     *)
CornerOf(k, to) == <<IF to[1] > k[1] THEN BOARD_WIDTH - 1 ELSE 0, k[2]>>

(* no castling destination and no two-square advance is produced for a     *)
(* piece that has moved: the generator on every piece of the board, and    *)
(* the legal-move table in force                                           *)
MovedPiecesKeepOut ==
    /\ \A c \in Cells :
           \A t \in (IF board[c].piece_type \in {"King", "Pawn"}
                     THEN MovesAlone(board, c) ELSE {}) :
               /\ (board[c].piece_type = "King" /\ TwoFilesAway(c, t)) =>
                      /\ ~board[c].has_moved
                      /\ board[CornerOf(c, t)].piece_type = "Rook"
                      /\ ~board[CornerOf(c, t)].has_moved
               /\ (board[c].piece_type = "Pawn" /\ Abs(t[2] - c[2]) = 2) =>
                      ~board[c].has_moved
    /\ TableInForce =>
           \A mv \in TableMoves :
               /\ mv \in CastlingMoves =>
                      /\ ~board[mv[1]].has_moved
                      /\ ~board[CornerOf(mv[1], mv[2])].has_moved
               /\ (board[mv[1]].piece_type = "Pawn" /\ TwoSquareAdvance(mv))
                      => ~board[mv[1]].has_moved

(* a step of update() never produces a piece with has_moved = false: every *)
(* square whose content changes is empty afterwards or holds a piece that  *)
(* has moved, and an executed move ends on such a piece                    *)
MovedIsKept ==
    /\ \A c \in Cells :
           (board'[c] # board[c] /\ board'[c] # NoPiece) => board'[c].has_moved
    /\ (plies_left' < plies_left /\ panicked' = NoPanic) =>
           /\ board'[last_move'[1][2]] # NoPiece
           /\ board'[last_move'[1][2]].has_moved
           /\ board'[last_move'[1][1]] = NoPiece

(* C26: has_moved, once true of a piece, stays true wherever the piece     *)
(* goes (no step of update() puts a piece with has_moved = false on a      *)
(* square, and every executed move leaves its piece with has_moved =       *)
(* true), and at every moment no castling move is produced or tabled for a *)
(* king or with a rook whose has_moved is true, nor a two-square advance   *)
(* for a pawn whose has_moved is true.                                     *)
C26_NoCastlingAfterMoving == []MovedPiecesKeepOut /\ [][MovedIsKept]_vars

(* C26 happens: after a move, the black king stands on e8 again after      *)
(* having moved, beside its unmoved rook on h8 with f8 and g8 empty, no    *)
(* white piece attacks e8, f8 or g8, it is Black's turn and the table      *)
(* holds moves of that king but no castling; and the white rook that has   *)
(* returned to h1 stands beside its unmoved king                           *)
C26_Witness ==
    /\ TableInForce
    /\ last_move # None
    /\ turn_info.color = Black
    /\ board[<<4, 0>>] = Moved("King", Black)
    /\ board[<<7, 0>>] = Unmoved("Rook", Black)
    /\ board[<<5, 0>>] = NoPiece /\ board[<<6, 0>>] = NoPiece
    /\ \A x \in 4 .. 6 : ~StdAttacked(board, White, <<x, 0>>)
    /\ legal_moves[<<4, 0>>] # {}
    /\ CastlingMoves = {}
    /\ board[<<7, 7>>] = Moved("Rook", White)
    /\ board[<<4, 7>>] = Unmoved("King", White)

-----------------------------------------------------------------------------
(* the payload of the Promotion state names the destination of the move    *)
(* just executed and the colour of the side to move                        *)
PayloadIsLastMove ==
    /\ last_move # None
    /\ turn_info.state.cell = last_move[1][2]
    /\ turn_info.state.color = turn_info.color
    /\ turn_info.state.cell[2] = LastRow(turn_info.state.color)
    /\ board[turn_info.state.cell].color = turn_info.state.color

(* C27 as stated: whenever the state is Promotion(cell, colour), cell is   *)
(* the destination of the move just executed, it holds a pawn of that      *)
(* colour on its last row and the colour is the turn colour.               *)
C27_PayloadIsPawn ==
    (panicked = NoPanic /\ turn_info.state.kind = "Promotion") =>
        /\ PayloadIsLastMove
        /\ board[turn_info.state.cell].piece_type = "Pawn"
        /\ \A c \in Cells \ {turn_info.state.cell} :
               board[c].piece_type = "Pawn" => c[2] # LastRow(board[c].color)

(* C27 amended: whenever the state is Promotion(cell, colour), cell is the *)
(* destination of the move just executed, on the last row of the colour,   *)
(* the colour is the turn colour and no other pawn stands on its last row; *)
(* while the choice is open (no turn change pending) the square holds a    *)
(* pawn of that colour, and once a valid choice is made, until the next    *)
(* update() applies the turn change, it holds the queen, knight, rook or   *)
(* bishop of that colour the pawn was promoted to.                         *)
C27_PayloadIsPawnWhileOpen ==
    (panicked = NoPanic /\ turn_info.state.kind = "Promotion") =>
        /\ PayloadIsLastMove
        /\ board[turn_info.state.cell].piece_type
               \in (IF change_turn
                    THEN {"Queen", "Knight", "Rook", "Bishop"}
                    ELSE {"Pawn"})
        /\ \A c \in Cells \ {turn_info.state.cell} :
               board[c].piece_type = "Pawn" => c[2] # LastRow(board[c].color)

(* C27 happens: a white pawn has just moved to row 0, another pawn is on   *)
(* the board, and the promotion choice is open                             *)
C27_Witness ==
    /\ PromotionPending
    /\ turn_info.color = White
    /\ last_move # None
    /\ turn_info.state.cell = last_move[1][2]
    /\ board[last_move[1][2]].piece_type = "Pawn"
    /\ last_move[1][2][2] = 0
    /\ \E c \in Cells \ {last_move[1][2]} : board[c].piece_type = "Pawn"

-----------------------------------------------------------------------------
(* the boards compute_each_legal_moves simulates for the side to move on   *)
(* board_state: one per pseudo-legal candidate, and for a castling         *)
(* candidate that the first pass keeps, the king's start square and the    *)
(* square it passes over                                                   *)
SimulatedBoards(board_state, color) ==
    UNION {{move_piece(board_state, from, to).board :
                to \in MovesAlone(board_state, from) \cap Cells}
               \cup
           {move_piece(board_state, from, <<from[1] + d * x, from[2]>>).board :
                <<d, x>> \in
                    {dx \in {-1, 1} \X {0, 1} :
                        /\ board_state[from].piece_type = "King"
                        /\ <<from[1] + 2 * dx[1], from[2]>>
                               \in MovesAlone(board_state, from)
                        /\ ~is_in_check(
                               move_piece(board_state, from,
                                          <<from[1] + 2 * dx[1], from[2]>>)
                                   .board, color).value}} :
           from \in CellsOfColor(board_state, color)}

(* the squares get_moves writes for the piece on c: the destinations it    *)
(* marks and, for an unmoved king, the two castling squares x + 2 and      *)
(* x - 2 it assigns                                                        *)
Written(board_state, c) ==
    MovesAlone(board_state, c) \cup
    (IF board_state[c].piece_type = "King" /\ ~board_state[c].has_moved
     THEN {<<c[1] + 2, c[2]>>, <<c[1] - 2, c[2]>>}
     ELSE {})

(* the generator is safe for the piece on c: every square it writes is on  *)
(* the board, an unmoved king stands on its home square (so the castling   *)
(* walk starts at x = 4 and ends on a corner), and every square it marks   *)
(* is empty or enemy-occupied                                              *)
GeneratorSafe(board_state, c) ==
    /\ Written(board_state, c) \subseteq Cells
    /\ (board_state[c].piece_type = "King" /\ ~board_state[c].has_moved) =>
           /\ c = <<4, IF board_state[c].color = White THEN 7 ELSE 0>>
           /\ \A x_dir \in {-1, 1} :
                  CastleWalk(board_state, c[1], c[2], x_dir) \in {-1, 0, 7}
    /\ \A t \in MovesAlone(board_state, c) \cap Cells :
           Enterable(board_state, board_state[c].color, t)

(* the generator writes only squares of the board *)
GeneratorInBounds(board_state, c) ==
    /\ Written(board_state, c) \subseteq Cells
    /\ (board_state[c].piece_type = "King" /\ ~board_state[c].has_moved) =>
           /\ c = <<4, IF board_state[c].color = White THEN 7 ELSE 0>>
           /\ \A x_dir \in {-1, 1} :
                  CastleWalk(board_state, c[1], c[2], x_dir) \in {-1, 0, 7}

(* C28: on every board the game reaches the generator is safe for every    *)
(* piece of both colours, and on every board simulated while the table of  *)
(* the side to move is filtered it is safe for every piece of the enemy,   *)
(* whose attacks is_in_check computes there.                               *)
C28_GeneratorStaysOnBoard ==
    /\ \A c \in {d \in Cells : board[d] # NoPiece} : GeneratorSafe(board, c)
    /\ (TableInForce /\ selected_cell = None) =>
           \A b \in SimulatedBoards(board, turn_info.color) :
               \A c \in CellsOfColor(b, get_enemy_color(turn_info.color)) :
                   GeneratorSafe(b, c)

-----------------------------------------------------------------------------
(* C29: for all x, y in 0..7, to_index_1d(<<x, y>>) = y * 8 + x, a number  *)
(* in 0..63, and to_index_2d takes it back to <<x, y>>; for all i in       *)
(* 0..63, to_index_2d(i) is a cell of the board and to_index_1d takes it   *)
(* back to i; so it is for the cell the player has selected and for both   *)
(* squares of the move just executed.                                      *)
C29_IndexRoundTrip ==
    /\ \A x \in 0 .. 7 : \A y \in 0 .. 7 :
           /\ to_index_1d(<<x, y>>) = y * 8 + x
           /\ to_index_1d(<<x, y>>) \in 0 .. 63
           /\ to_index_2d(to_index_1d(<<x, y>>)) = <<x, y>>
    /\ \A i \in 0 .. 63 :
           /\ to_index_2d(i) \in (0 .. 7) \X (0 .. 7)
           /\ to_index_1d(to_index_2d(i)) = i
    /\ \A c \in {d \in Cells : selected_cell = Some(d)
                               \/ (last_move # None /\ d \in
                                     {last_move[1][1], last_move[1][2]})} :
           to_index_2d(to_index_1d(c)) = c

(* C29 happens: after a move the player has selected the corner (7, 0),    *)
(* whose index is 7 and not 56                                             *)
C29_Witness ==
    /\ last_move # None
    /\ selected_cell = Some(<<7, 0>>)
    /\ to_index_1d(selected_cell[1]) = 7
    /\ to_index_2d(7) = selected_cell[1]
    /\ to_index_2d(56) = <<0, 7>>

-----------------------------------------------------------------------------
(* the two failures of move_piece and move_castling on an empty square *)
EmptySquareFailures == {"should contain a piece", "cell should not be empty"}

(* the calls of move_piece that filtering the table of the side to move    *)
(* makes on board_state: every pseudo-legal candidate, and for a king with *)
(* a castling candidate the replays onto its own square and the square     *)
(* beside it                                                               *)
SimulationCalls(board_state, color) ==
    UNION {{<<from, to>> : to \in MovesAlone(board_state, from) \cap Cells}
               \cup
           {<<from, <<from[1] + d * x, from[2]>>>> :
                <<d, x>> \in
                    {dx \in {-1, 1} \X {0, 1} :
                        /\ board_state[from].piece_type = "King"
                        /\ <<from[1] + 2 * dx[1], from[2]>>
                               \in MovesAlone(board_state, from)}} :
           from \in CellsOfColor(board_state, color)}

(* move_piece from an empty square fails and leaves the board as it was;   *)
(* no state carries one of the two failures; every call that filtering     *)
(* makes and every move of the table starts on a piece of the side to move *)
(* and succeeds                                                            *)
MovePieceCallsAreSafe ==
    /\ \A from \in {c \in Cells : board[c] = NoPiece} :
           \A to \in ProbeCells \cup {from} \cup {c \in Cells :
                                                      selected_cell = Some(c)} :
               /\ move_piece(board, from, to).panic = "should contain a piece"
               /\ move_piece(board, from, to).board = board
    /\ panicked \notin EmptySquareFailures
    /\ (TableInForce /\ selected_cell = None) =>
           \A call \in SimulationCalls(board, turn_info.color) :
               /\ board[call[1]] # NoPiece
               /\ board[call[1]].color = turn_info.color
               /\ move_piece(board, call[1], call[2]).panic = NoPanic
    /\ TableInForce =>
           \A mv \in TableMoves :
               /\ board[mv[1]] # NoPiece
               /\ board[mv[1]].color = turn_info.color
               /\ move_piece(board, mv[1], mv[2]).panic = NoPanic

(* a move that update() executes starts on a piece of the side to move and *)
(* does not fail                                                           *)
ExecutedFromOwnPiece ==
    plies_left' < plies_left =>
        /\ TableInForce
        /\ board[last_move'[1][1]] # NoPiece
        /\ board[last_move'[1][1]].color = turn_info.color
        /\ panicked' = NoPanic

(* C30: move_piece with an empty from square fails before it changes any   *)
(* square; in every run of update() calls, every call of move_piece, on    *)
(* the real board and while the table is filtered, starts on a square that *)
(* holds a piece of the side to move, and neither that failure nor         *)
(* move_castling's failure on an empty corner is ever reached.             *)
C30_MovePieceNeverAborts ==
    []MovePieceCallsAreSafe /\ [][ExecutedFromOwnPiece]_vars

(* C30 happens: after a move, the player has selected the empty square     *)
(* (4, 4) while a table with moves is in force, so that the next click     *)
(* decides whether move_piece is called from it                            *)
C30_Witness ==
    /\ TableInForce
    /\ last_move # None
    /\ selected_cell = Some(<<4, 4>>)
    /\ board[<<4, 4>>] = NoPiece
    /\ TableMoves # {}
    /\ move_piece(board, <<4, 4>>, <<7, 0>>).panic \in EmptySquareFailures

-----------------------------------------------------------------------------
(* the board after the en-passant capture mv: the capturing pawn on the    *)
(* destination, its start square and the square of the captured pawn empty *)
AfterEnPassant(board_state, mv) ==
    [c \in Cells |->
        IF c = mv[2] THEN [board_state[mv[1]] EXCEPT !.has_moved = TRUE]
        ELSE IF c = mv[1] \/ c = <<mv[2][1], mv[1][2]>> THEN NoPiece
        ELSE board_state[c]]

(* the board after the castling move mv: the king on its destination, the  *)
(* rook of that side on the square the king passed over                    *)
AfterCastling(board_state, mv) ==
    LET corner == <<IF mv[2][1] > mv[1][1] THEN 7 ELSE 0, mv[1][2]>>
        passed == <<IF mv[2][1] > mv[1][1] THEN 5 ELSE 3, mv[1][2]>>
    IN  [c \in Cells |->
            IF c = mv[2] THEN [board_state[mv[1]] EXCEPT !.has_moved = TRUE]
            ELSE IF c = passed
                 THEN [board_state[corner] EXCEPT !.has_moved = TRUE]
            ELSE IF c = mv[1] \/ c = corner THEN NoPiece
            ELSE board_state[c]]

(* C31: no en-passant capture of the legal-move table in force leaves the  *)
(* mover's king attacked on the board with both the capturing pawn's start *)
(* square and the captured pawn removed, and no castling move of the table *)
(* leaves the king attacked on the board with the rook relocated.          *)
C31_FilterSeesSideEffects ==
    TableInForce =>
        /\ \A mv \in EnPassantMoves :
               ~KingAttacked(AfterEnPassant(board, mv), turn_info.color)
        /\ \A mv \in CastlingMoves :
               ~KingAttacked(AfterCastling(board, mv), turn_info.color)

-----------------------------------------------------------------------------
(* the side of the piece that made the last move *)
LastMover == board[last_move[1][2]].color

(* the turn colour against the last move: once the turn change that        *)
(* follows a move has been applied the side to move is the opponent of the *)
(* last mover, and until then (turn change pending, or promotion choice    *)
(* open) it is still the last mover                                        *)
ColourFollowsLastMove ==
    (panicked = NoPanic /\ last_move # None) =>
        turn_info.color = IF change_turn \/ turn_info.state.kind = "Promotion"
                          THEN LastMover
                          ELSE get_enemy_color(LastMover)

(* one call of update() against the turn colour *)
ColourFlipsOncePerMove ==
    /\ turn_info'.color # turn_info.color =>
           /\ change_turn /\ ~change_turn'
           /\ turn_info'.color = get_enemy_color(turn_info.color)
           /\ plies_left' = plies_left
    /\ (change_turn /\ panicked' = NoPanic) =>
           /\ turn_info'.color = get_enemy_color(turn_info.color)
           /\ turn_info'.state.kind # "Promotion"
           /\ board' = board
    /\ (plies_left' < plies_left /\ panicked' = NoPanic) =>
           /\ ~change_turn
           /\ turn_info'.color = turn_info.color
           /\ change_turn' # (turn_info'.state.kind = "Promotion")
    /\ (PromotionPending /\ panicked' = NoPanic) =>
           /\ turn_info'.color = turn_info.color
           /\ plies_left' = plies_left
           /\ change_turn' <=> board' # board
    /\ (change_turn' /\ ~change_turn) =>
           \/ plies_left' < plies_left
           \/ PromotionPending /\ board' # board

(* C32: the turn colour flips only in the update() that applies a pending  *)
(* turn change, and that update() always flips it, before its click is     *)
(* evaluated; a turn change becomes pending only by an accepted move that  *)
(* does not promote or by the promotion choice that follows one that does; *)
(* the colour does not flip in the update() that accepts a move nor while  *)
(* the promotion choice is open; so at every moment the side to move is    *)
(* the opponent of the last mover once the turn change is applied and the  *)
(* last mover until then.                                                  *)
C32_OneFlipPerMove == []ColourFollowsLastMove /\ [][ColourFlipsOncePerMove]_vars

(* C32 happens: after a white move a black pawn moved to row 7 and was     *)
(* promoted, the turn change that followed the choice has been applied and *)
(* it is White's turn                                                      *)
C32_Witness ==
    /\ TableInForce
    /\ last_move # None
    /\ turn_info.color = White
    /\ last_move[1][1][2] = 6
    /\ last_move[1][2][2] = 7
    /\ LastMover = Black
    /\ board[last_move[1][2]].piece_type \in {"Queen", "Knight", "Rook", "Bishop"}
    /\ plies_left = 0

-----------------------------------------------------------------------------
(* every piece of board_state with has_moved = false stands on the square  *)
(* the standard position gives a piece of its kind and colour              *)
UnmovedAtHome(board_state) ==
    \A c \in Cells :
        (board_state[c] # NoPiece /\ ~board_state[c].has_moved) =>
            /\ StandardPosition[c] # NoPiece
            /\ board_state[c].piece_type = StandardPosition[c].piece_type
            /\ board_state[c].color = StandardPosition[c].color

(* every unmoved king of board_state stands on (4, 7) for White and on     *)
(* (4, 0) for Black                                                        *)
UnmovedKingsAtHome(board_state) ==
    \A k \in UnmovedKings(board_state) :
        k = <<4, IF board_state[k].color = White THEN 7 ELSE 0>>

(* C33: on every board the game reaches, and on every board simulated      *)
(* while the table of the side to move is filtered, each piece with        *)
(* has_moved = false stands on its initial square, every unmoved king on   *)
(* (4, 7) or (4, 0), and the failure 'king cannot exist at' is not         *)
(* reached.                                                                *)
C33_UnmovedPiecesAtHome ==
    /\ UnmovedAtHome(board)
    /\ UnmovedKingsAtHome(board)
    /\ panicked # "king cannot exist at"
    /\ (TableInForce /\ selected_cell = None) =>
           \A b \in SimulatedBoards(board, turn_info.color) :
               /\ UnmovedAtHome(b)
               /\ UnmovedKingsAtHome(b)
               /\ \A k \in UnmovedKings(b) : PanicCell \notin MovesAlone(b, k)

(* C33 happens: after a move it is Black's turn with candidates to         *)
(* simulate; the black king, which has moved, stands on e8 beside its      *)
(* unmoved rook, and the unmoved white king, whose moves every simulation  *)
(* generates, stands on e1                                                 *)
C33_Witness ==
    /\ TableInForce
    /\ last_move # None
    /\ selected_cell = None
    /\ turn_info.color = Black
    /\ TableMoves # {}
    /\ board[<<4, 0>>] = Moved("King", Black)
    /\ board[<<7, 0>>] = Unmoved("Rook", Black)
    /\ <<4, 7>> \in UnmovedKings(board)

-----------------------------------------------------------------------------
(* the squares of the pieces whose en_passant flag is true *)
Flagged(board_state) == {c \in Cells : board_state[c].en_passant}

(* C34: in every reachable state at most one piece has en_passant = true;  *)
(* it is a pawn, the piece that made the last move, a two-square advance   *)
(* from its home row to y = 4 for White and y = 3 for Black, and the       *)
(* square it passed over is empty; and no pawn of the side whose legal     *)
(* moves are computed has the flag: none of the side to move while its     *)
(* table is in force, none of the opponent while the turn change that      *)
(* computes the opponent's table is pending.                               *)
C34_OneFlaggedPawn ==
    /\ Cardinality(Flagged(board)) <= 1
    /\ \A c \in Flagged(board) :
           /\ board[c].piece_type = "Pawn"
           /\ last_move # None
           /\ last_move[1] = <<<<c[1], IF board[c].color = White THEN 6 ELSE 1>>,
                               c>>
           /\ c[2] = (IF board[c].color = White THEN 4 ELSE 3)
           /\ board[<<c[1], IF board[c].color = White THEN 5 ELSE 2>>]
                  = NoPiece
           /\ board[c].color = (IF change_turn THEN turn_info.color
                                ELSE get_enemy_color(turn_info.color))
    /\ TableInForce =>
           \A c \in Flagged(board) : board[c].color # turn_info.color
    /\ (panicked = NoPanic /\ change_turn) =>
           \A c \in Flagged(board) :
               board[c].color # get_enemy_color(turn_info.color)

(* C34 happens: Black has just advanced a pawn two squares, that pawn      *)
(* alone has the flag, the turn change has been applied and White, which   *)
(* has a pawn of its own, is to move                                       *)
C34_Witness ==
    /\ TableInForce
    /\ turn_info.color = White
    /\ last_move # None
    /\ Flagged(board) = {last_move[1][2]}
    /\ board[last_move[1][2]].color = Black
    /\ \E c \in Cells : board[c].piece_type = "Pawn" /\ board[c].color = White

-----------------------------------------------------------------------------
(* the number of pieces of a colour on a board *)
PieceCount(board_state, color) ==
    Cardinality({c \in Cells : board_state[c].color = color})

(* one call of update() against the piece counts: an accepted move keeps   *)
(* the number of the mover's pieces and takes at most one piece of the     *)
(* opponent; any other call, a promotion choice included, keeps both       *)
CountsPerMove ==
    panicked' = NoPanic =>
        IF plies_left' < plies_left
        THEN /\ PieceCount(board', turn_info.color)
                    = PieceCount(board, turn_info.color)
             /\ PieceCount(board, get_enemy_color(turn_info.color))
                    - PieceCount(board', get_enemy_color(turn_info.color))
                        \in {0, 1}
        ELSE \A color \in {White, Black} :
                 PieceCount(board', color) = PieceCount(board, color)

(* every pawn move of the table in force that captures the flagged pawn    *)
(* beside it goes to an empty square, and every move of the table goes to  *)
(* a square that does not hold a piece of the mover                        *)
CapturesTakeOne ==
    TableInForce =>
        \A mv \in TableMoves :
            /\ board[mv[2]].color # turn_info.color
            /\ (/\ board[mv[1]].piece_type = "Pawn"
                /\ mv[2][1] # mv[1][1]
                /\ board[<<mv[2][1], mv[1][2]>>].en_passant)
                   => board[mv[2]] = NoPiece

(* C35: every accepted move leaves the number of the mover's pieces as it  *)
(* was, also when it castles and across the promotion choice, and lowers   *)
(* the number of the opponent's pieces by 0 or 1; an en-passant capture    *)
(* goes to an empty square, so that it removes the captured pawn alone.    *)
C35_AtMostOneCapture == []CapturesTakeOne /\ [][CountsPerMove]_vars

(* C35 happens: the white rook has just captured the knight on (0, 5): one *)
(* black piece less than at the start, as many white pieces                *)
C35_Witness ==
    /\ panicked = NoPanic
    /\ last_move = Some(<<<<0, 7>>, <<0, 5>>>>)
    /\ board[<<0, 5>>] = Moved("Rook", White)
    /\ PieceCount(board, White) = 4
    /\ PieceCount(board, Black) = 2

-----------------------------------------------------------------------------
(* the moves of the table that capture en passant: a pawn changing file    *)
(* beside a flagged pawn                                                    *)
TableEnPassants ==
    {mv \in TableMoves : /\ board[mv[1]].piece_type = "Pawn"
                         /\ mv[2][1] # mv[1][1]
                         /\ board[<<mv[2][1], mv[1][2]>>].en_passant}

(* C36: in every reachable state whose table is in force, every entry of   *)
(* the legal-move table starts on a piece of the side to move and ends on  *)
(* a square that holds no piece of that side; en-passant captures and      *)
(* castling moves end on an empty square.                                  *)
C36_NoOwnDestination ==
    TableInForce =>
        /\ \A from \in Cells : \A to \in legal_moves[from] :
               /\ board[from].color = turn_info.color
               /\ board[to].color # board[from].color
        /\ \A mv \in CastlingMoves \cup TableEnPassants :
               board[mv[2]] = NoPiece

(* C36 happens: after a move, a table in force that holds a castling move  *)
(* whose king has the rook of its own side further along its row           *)
C36_Witness ==
    /\ TableInForce
    /\ last_move # None
    /\ \E mv \in CastlingMoves : \E x \in {0, BOARD_WIDTH - 1} :
           /\ board[<<x, mv[1][2]>>].piece_type = "Rook"
           /\ board[<<x, mv[1][2]>>].color = turn_info.color
-----------------------------------------------------------------------------
(* the pawns that stand on the first or on the last row of the board *)
EdgePawns(board_state) ==
    {c \in Cells : /\ board_state[c].piece_type = "Pawn"
                   /\ c[2] \in {0, BOARD_HEIGHT - 1}}

(* the only pawn on an edge row is the one named by the Promotion state:   *)
(* a pawn of the side that has just moved, on its last row                 *)
OnlyThePromotingPawn ==
    /\ EdgePawns(board) = {turn_info.state.cell}
    /\ board[turn_info.state.cell].color = turn_info.color
    /\ turn_info.state.cell[2] = LastRow(turn_info.color)

(* C37 as stated: in every reachable state the pawns on rows 0 and 7 are   *)
(* exactly one pawn of the side that has just moved, on its last row,      *)
(* while the state is Promotion, and none while it is not.                 *)
C37_EdgePawnIffPromotion ==
    panicked = NoPanic =>
        IF turn_info.state.kind = "Promotion"
        THEN OnlyThePromotingPawn
        ELSE EdgePawns(board) = {}

(* C37 amended: in every reachable state the pawns on rows 0 and 7 are     *)
(* exactly one pawn of the side that has just moved, on its last row,      *)
(* while the state is Promotion and the choice is open; there is none once *)
(* the choice is made, the state still being Promotion until the next      *)
(* update() applies the turn change, and none while the state is not       *)
(* Promotion.                                                              *)
C37_EdgePawnIffChoiceOpen ==
    panicked = NoPanic =>
        IF turn_info.state.kind = "Promotion" /\ ~change_turn
        THEN OnlyThePromotingPawn
        ELSE EdgePawns(board) = {}

(* C37 happens: a black pawn has just moved to row 7, the choice is open   *)
(* and a white pawn stands elsewhere on the board                          *)
C37_Witness ==
    /\ PromotionPending
    /\ turn_info.color = Black
    /\ last_move # None
    /\ EdgePawns(board) = {last_move[1][2]}
    /\ last_move[1][2][2] = BOARD_HEIGHT - 1
    /\ \E c \in Cells : board[c] # NoPiece /\ board[c].color = White

-----------------------------------------------------------------------------
(* the squares of a board that hold a piece with has_moved = false *)
UnmovedSquares(board_state) ==
    {c \in Cells : board_state[c] # NoPiece /\ ~board_state[c].has_moved}

(* one call of update() against the flags: no square comes to hold a piece *)
(* with has_moved = false that it did not hold before, and the piece a     *)
(* promotion choice replaces the pawn by has has_moved = true, as the pawn *)
(* had                                                                     *)
FlagNeverReturns ==
    /\ UnmovedSquares(board') \subseteq UnmovedSquares(board)
    /\ \A c \in UnmovedSquares(board') :
           /\ board'[c].piece_type = board[c].piece_type
           /\ board'[c].color = board[c].color
    /\ (PromotionPending /\ change_turn' /\ panicked' = NoPanic) =>
           /\ board[turn_info.state.cell].has_moved
           /\ board'[turn_info.state.cell].has_moved
           /\ board'[turn_info.state.cell].piece_type
                  \in {"Queen", "Knight", "Rook", "Bishop"}

(* a rook with has_moved = true on a corner gives the unmoved king of its  *)
(* row no castling candidate towards that corner, whatever its colour, and *)
(* the table in force has no castling move towards it                      *)
MovedCornerRookGivesNoCastling ==
    \A k \in UnmovedKings(board) :
        \A x \in {0, BOARD_WIDTH - 1} :
            (/\ board[<<x, k[2]>>].piece_type = "Rook"
             /\ board[<<x, k[2]>>].has_moved)
                => \A to \in {<<IF x = 0 THEN k[1] - 2 ELSE k[1] + 2, k[2]>>} :
                       /\ to \notin CastlingCandidates(board, k)
                       /\ TableInForce => to \notin legal_moves[k]

(* C38: no call of update() turns has_moved of a piece on the board from   *)
(* true to false, a promotion leaves has_moved = true, and so a rook that   *)
(* a pawn was promoted to, standing on a corner beside an unmoved king,     *)
(* makes no castling candidate available.                                   *)
C38_PromotedRookNeverCastles ==
    []MovedCornerRookGivesNoCastling /\ [][FlagNeverReturns]_vars

(* C38 happens: the white pawn has moved to a8 and become a rook; it is    *)
(* Black's turn, the black king is unmoved on e8 with b8, c8 and d8 empty, *)
(* and its table has moves but not the one to c8                           *)
C38_Witness ==
    /\ TableInForce
    /\ turn_info.color = Black
    /\ last_move = Some(<<<<0, 1>>, <<0, 0>>>>)
    /\ board[<<0, 0>>] = Moved("Rook", White)
    /\ board[<<4, 0>>] = Unmoved("King", Black)
    /\ \A x \in 1 .. 3 : board[<<x, 0>>] = NoPiece
    /\ legal_moves[<<4, 0>>] # {}
    /\ <<2, 0>> \notin legal_moves[<<4, 0>>]

-----------------------------------------------------------------------------
(* board.rs, the revision of the game that keeps the board in one array of *)
(* BOARD_SIZE_1D squares: Board::to_index1d, Board::to_index2d and the     *)
(* array holding the squares of board_state                                *)
BOARD_SIZE_1D == BOARD_WIDTH * BOARD_HEIGHT

to_index1d(pos) == pos[2] * BOARD_WIDTH + pos[1]

to_index2d(ind) == <<ind % BOARD_WIDTH, ind \div BOARD_WIDTH>>

Board_board_state(board_state) ==
    [ind \in 0 .. (BOARD_SIZE_1D - 1) |-> board_state[to_index2d(ind)]]

(* Board::move_piece: the array after the move, the eliminated piece and   *)
(* its position                                                            *)
Board_move_piece(flat, from, to) ==
    LET from_1d == to_index1d(from)
        to_1d == to_index1d(to)
        src == flat[from_1d]
        en_passant_target == flat[to_index1d(<<to[1], from[2]>>)]
        is_attack ==
            /\ src.piece_type = "Pawn"
            /\ from[1] # to[1]
            /\ en_passant_target # NoPiece
            /\ en_passant_target.color # src.color
            /\ en_passant_target.piece_type = "Pawn"
            /\ en_passant_target.en_passant
        is_advance ==
            /\ src.piece_type = "Pawn"
            /\ from[1] = to[1]
            /\ (from[2] - to[2] = 2 \/ to[2] - from[2] = 2)
        src_piece == [src EXCEPT !.has_moved = TRUE,
                                 !.en_passant = IF is_advance THEN TRUE ELSE @]
        eliminated == IF is_attack THEN en_passant_target ELSE flat[to_1d]
        eliminated_position == IF is_attack THEN <<to[1], from[2]>> ELSE to
    IN  IF src = NoPiece
        THEN [board_state |-> flat, eliminated |-> NoPiece,
              eliminated_position |-> to, panic |-> "should contain a piece"]
        ELSE [board_state |->
                  [[[flat EXCEPT ![from_1d] = NoPiece]
                       EXCEPT ![to_index1d(eliminated_position)] = NoPiece]
                       EXCEPT ![to_1d] = src_piece],
              eliminated |-> eliminated,
              eliminated_position |-> eliminated_position,
              panic |-> NoPanic]

Board_restore_eliminated_first(flat, src_pos_1d, dst_pos_1d) ==
    LET original_src == flat[src_pos_1d]
        moved == Board_move_piece(flat, to_index2d(src_pos_1d),
                                  to_index2d(dst_pos_1d))
    IN  [[[moved.board_state
              EXCEPT ![src_pos_1d] = original_src]
              EXCEPT ![to_index1d(moved.eliminated_position)] = moved.eliminated]
              EXCEPT ![dst_pos_1d] = NoPiece]

(* Board::eliminate_illegal_moves, one candidate: the array after the      *)
(* simulated move has been undone                                          *)
Board_restore(flat, src_pos_1d, dst_pos_1d) ==
    LET original_src == flat[src_pos_1d]
        moved == Board_move_piece(flat, to_index2d(src_pos_1d),
                                  to_index2d(dst_pos_1d))
    IN  [[[moved.board_state
              EXCEPT ![src_pos_1d] = original_src]
              EXCEPT ![dst_pos_1d] = NoPiece]
              EXCEPT ![to_index1d(moved.eliminated_position)] = moved.eliminated]

(* the candidates Board::eliminate_illegal_moves examines on board_state   *)
(* for the side to move: the destinations the generator yields for each of *)
(* its pieces                                                              *)
Board_candidates(board_state, color) ==
    UNION {{<<from, to>> : to \in MovesAlone(board_state, from) \cap Cells} :
               from \in CellsOfColor(board_state, color)}

(* the candidates that capture on their destination, that capture en       *)
(* passant and that advance a pawn by two squares                          *)
CaptureCandidates(board_state, candidates) ==
    {mv \in candidates : board_state[mv[2]] # NoPiece}
EnPassantCandidates(board_state, candidates) ==
    {mv \in candidates : /\ board_state[mv[1]].piece_type = "Pawn"
                         /\ mv[2][1] # mv[1][1]
                         /\ board_state[mv[2]] = NoPiece}
AdvanceCandidates(board_state, candidates) ==
    {mv \in candidates : /\ board_state[mv[1]].piece_type = "Pawn"
                         /\ Abs(mv[2][2] - mv[1][2]) = 2}

(* C39: for every candidate the filter of the flat-array revision examines *)
(* for the side to move on a board the game reaches, the simulated move    *)
(* does not fail, the squares it changes are among the source square, the  *)
(* destination square and the square of the eliminated piece, and the      *)
(* array after the restore equals the array before the simulation, piece   *)
(* flags included.                                                         *)
C39_RestoreIsExact ==
    (TableInForce /\ selected_cell = None) =>
        \A flat \in {Board_board_state(board)} :
            \A mv \in Board_candidates(board, turn_info.color) :
                \A moved \in {Board_move_piece(flat, mv[1], mv[2])} :
                    /\ moved.panic = NoPanic
                    /\ \A ind \in DOMAIN flat :
                           moved.board_state[ind] # flat[ind] =>
                               ind \in {to_index1d(mv[1]), to_index1d(mv[2]),
                                        to_index1d(moved.eliminated_position)}
                    /\ Board_restore(flat, to_index1d(mv[1]),
                                     to_index1d(mv[2])) = flat

(* C39 happens: after a move, the side to move has a candidate that        *)
(* captures en passant, the eliminated pawn standing beside the            *)
(* destination, and a candidate that goes to an empty square and           *)
(* eliminates nothing                                                      *)
C39_Witness ==
    /\ TableInForce
    /\ selected_cell = None
    /\ last_move # None
    /\ \A candidates \in {Board_candidates(board, turn_info.color)} :
           /\ \E mv \in EnPassantCandidates(board, candidates) :
                  Board_move_piece(Board_board_state(board), mv[1], mv[2])
                      .eliminated_position = <<mv[2][1], mv[1][2]>>
           /\ \E mv \in candidates \ EnPassantCandidates(board, candidates) :
                  board[mv[2]] = NoPiece

(* and after a move the side to move has among its candidates a capture on *)
(* the destination square and a two-square advance of a pawn               *)
C39_WitnessCapture ==
    /\ TableInForce
    /\ selected_cell = None
    /\ last_move # None
    /\ \A candidates \in {Board_candidates(board, turn_info.color)} :
           /\ CaptureCandidates(board, candidates) # {}
           /\ AdvanceCandidates(board, candidates) # {}
=============================================================================
